---- MODULE Spec2Model ----
(***************************************************************************)
(* A model of the TSCN parser/serializer of godot-mcp (TscnParser) and of  *)
(* its mutation helpers.                                                   *)
(*                                                                         *)
(* JavaScript strings are sequences of one-character strings.  JavaScript  *)
(* values are records tagged by a field k:                                 *)
(*   undefined, null, bool, num (a decimal m / 10^e), NaN, str, arr, obj   *)
(* An obj keeps its entries in insertion order, as Object.entries does.    *)
(* A tagged record of the parser ({_type: "Vector2", x, y}) is an obj      *)
(* whose first entry has the key _type.                                    *)
(***************************************************************************)
EXTENDS Integers, Sequences, FiniteSets, TLC

VARIABLES
    scene,      \* the Document the mutation helpers act on
    before,     \* the Document as it was when the last helper was called
    call,       \* the last helper call: its name, arguments and result
    steps,      \* number of helper calls made so far
    recomputed, \* whether addNode or removeNode has been called so far
    pc,         \* position of a parse/serialize pipeline
    input,      \* the pipeline's input (a text or a value)
    output      \* the pipeline's results so far

vars == <<scene, before, call, steps, recomputed, pc, input, output>>

Idle == <<>>

(***************************************************************************)
(* Strings                                                                 *)
(***************************************************************************)
Quote == "\""
Backslash == "\\"

StartsWith(s, p) ==
    /\ Len(p) <= Len(s)
    /\ SubSeq(s, 1, Len(p)) = p

EndsWith(s, p) ==
    /\ Len(p) <= Len(s)
    /\ SubSeq(s, Len(s) - Len(p) + 1, Len(s)) = p

(***************************************************************************)
(* String operations of the host language                                  *)
(***************************************************************************)
IsSpace(c) == c \in {" ", "\t", "\n", "\r"}
Digits == <<"0", "1", "2", "3", "4", "5", "6", "7", "8", "9">>
IsDigit(c) == \E i \in 1..10 : Digits[i] = c
DigitVal(c) == (CHOOSE i \in 1..10 : Digits[i] = c) - 1
\* \w of a regular expression
IsWordChar(c) ==
    \/ IsDigit(c)
    \/ c = "_"
    \/ c \in {"a", "b", "c", "d", "e", "f", "g", "h", "i", "j", "k", "l", "m",
              "n", "o", "p", "q", "r", "s", "t", "u", "v", "w", "x", "y", "z"}
    \/ c \in {"A", "B", "C", "D", "E", "F", "G", "H", "I", "J", "K", "L", "M",
              "N", "O", "P", "Q", "R", "S", "T", "U", "V", "W", "X", "Y", "Z"}

\* s.trimStart(), s.trimEnd(), s.trim()
TrimStart(s) ==
    IF \A i \in 1..Len(s) : IsSpace(s[i]) THEN <<>>
    ELSE SubSeq(s, CHOOSE i \in 1..Len(s) :
                        ~IsSpace(s[i]) /\ \A j \in 1..(i - 1) : IsSpace(s[j]), Len(s))

TrimEnd(s) ==
    IF \A i \in 1..Len(s) : IsSpace(s[i]) THEN <<>>
    ELSE SubSeq(s, 1, CHOOSE i \in 1..Len(s) :
                        ~IsSpace(s[i]) /\ \A j \in (i + 1)..Len(s) : IsSpace(s[j]))

Trim(s) == TrimEnd(TrimStart(s))

RECURSIVE FlattenRange(_, _, _)
\* the concatenation of pieces[lo], ..., pieces[hi]
FlattenRange(pieces, lo, hi) ==
    IF lo > hi THEN <<>>
    ELSE IF lo = hi THEN pieces[lo]
    ELSE FlattenRange(pieces, lo, (lo + hi) \div 2)
            \o FlattenRange(pieces, ((lo + hi) \div 2) + 1, hi)

Flatten(pieces) == FlattenRange(pieces, 1, Len(pieces))

\* the k-th smallest element of a set of positions
Kth(S, k) == CHOOSE p \in S : Cardinality({q \in S : q < p}) = k - 1

\* the pieces of s between the positions of seps
SplitAt(s, seps) ==
    LET n == Cardinality(seps)
    IN  [k \in 1..(n + 1) |->
            SubSeq(s, IF k = 1 THEN 1 ELSE Kth(seps, k - 1) + 1,
                      IF k = n + 1 THEN Len(s) ELSE Kth(seps, k) - 1)]

\* s.slice(from), 0-based
SliceFrom(s, from) == SubSeq(s, from + 1, Len(s))
\* s.slice(from, -1), 0-based
SliceInner(s, from) == SubSeq(s, from + 1, Len(s) - 1)

\* s.indexOf(c), 0-based, -1 when absent
IndexOf(s, c) ==
    IF \E i \in 1..Len(s) : s[i] = c
    THEN (CHOOSE i \in 1..Len(s) : s[i] = c /\ \A j \in 1..(i - 1) : s[j] # c) - 1
    ELSE -1

\* the length of the run of a's that ends just before position i
RunBefore(s, i, a) ==
    IF i = 1 \/ s[i - 1] # a THEN 0
    ELSE IF \A j \in 1..(i - 1) : s[j] = a THEN i - 1
    ELSE i - 1 - (CHOOSE j \in 1..(i - 1) :
                    s[j] # a /\ \A q \in (j + 1)..(i - 1) : s[q] = a)

\* a left-to-right, non-overlapping match of the two-character pattern ab
\* starts at position i
PairMatchAt(s, i, a, b) ==
    /\ i < Len(s)
    /\ s[i] = a /\ s[i + 1] = b
    /\ (a = b) => (RunBefore(s, i, a) % 2 = 0)

\* s.replace(/ab/g, rep) for a two-character pattern ab
ReplacePair(s, a, b, rep) ==
    Flatten([i \in 1..Len(s) |->
                IF PairMatchAt(s, i, a, b) THEN rep
                ELSE IF i > 1 /\ PairMatchAt(s, i - 1, a, b) THEN <<>>
                ELSE <<s[i]>>])

\* s.replace(/c/g, rep) for a one-character pattern c
ReplaceChar(s, c, rep) ==
    Flatten([i \in 1..Len(s) |-> IF s[i] = c THEN rep ELSE <<s[i]>>])

\* s.split(c)
SplitOn(s, c) == SplitAt(s, {i \in 1..Len(s) : s[i] = c})

\* parts.join(sep)
Join(parts, sep) ==
    Flatten([i \in 1..Len(parts) |-> IF i = 1 THEN parts[1] ELSE sep \o parts[i]])

(***************************************************************************)
(* Values                                                                  *)
(***************************************************************************)
Undef == [k |-> "undefined"]
Null == [k |-> "null"]
NaN == [k |-> "NaN"]
Bool(b) == [k |-> "bool", b |-> b]
Num(m, e) == [k |-> "num", m |-> m, e |-> e]
Int_(n) == Num(n, 0)
Str(s) == [k |-> "str", s |-> s]
Arr(items) == [k |-> "arr", items |-> items]
Obj(entries) == [k |-> "obj", entries |-> entries]
Entry(key, val) == [key |-> key, val |-> val]

(***************************************************************************)
(* Numbers: a num is the decimal m / 10^e, with e = 0 or m not a multiple  *)
(* of 10.  Exponent notation is outside the model.                         *)
(***************************************************************************)
RECURSIVE Normalize(_, _)
Normalize(m, e) ==
    IF e > 0 /\ m % 10 = 0 THEN Normalize(m \div 10, e - 1) ELSE Num(m, e)

RECURSIVE DigitsValue(_, _)
\* the number written by the digits of s, after the digits that gave acc
DigitsValue(s, acc) ==
    IF s = <<>> THEN acc ELSE DigitsValue(Tail(s), 10 * acc + DigitVal(Head(s)))

\* the longest prefix of s made of digits
DigitRun(s) ==
    IF \A i \in 1..Len(s) : IsDigit(s[i]) THEN s
    ELSE SubSeq(s, 1, (CHOOSE i \in 1..Len(s) :
                        ~IsDigit(s[i]) /\ \A j \in 1..(i - 1) : IsDigit(s[j])) - 1)

\* a parseInt that drops the sign
ParseInt_Unsigned(s) ==
    LET t == TrimStart(s)
        u == IF t # <<>> /\ Head(t) \in {"-", "+"} THEN Tail(t) ELSE t
        ds == DigitRun(u)
    IN  IF ds = <<>> THEN NaN ELSE Int_(DigitsValue(ds, 0))

\* parseInt(s, 10)
ParseInt(s) ==
    LET t == TrimStart(s)
        neg == t # <<>> /\ Head(t) = "-"
        u == IF t # <<>> /\ Head(t) \in {"-", "+"} THEN Tail(t) ELSE t
        ds == DigitRun(u)
    IN  IF ds = <<>> THEN NaN
        ELSE Int_(IF neg THEN 0 - DigitsValue(ds, 0) ELSE DigitsValue(ds, 0))

\* parseFloat(s)
ParseFloat(s) ==
    LET t == TrimStart(s)
        neg == t # <<>> /\ Head(t) = "-"
        u == IF t # <<>> /\ Head(t) \in {"-", "+"} THEN Tail(t) ELSE t
        ip == DigitRun(u)
        rest == SliceFrom(u, Len(ip))
        fp == IF rest # <<>> /\ Head(rest) = "." THEN DigitRun(Tail(rest)) ELSE <<>>
        mag == DigitsValue(ip \o fp, 0)
    IN  IF ip = <<>> /\ fp = <<>> THEN NaN
        ELSE Normalize(IF neg THEN 0 - mag ELSE mag, Len(fp))

RECURSIVE NatToString(_)
NatToString(n) ==
    IF n < 10 THEN <<Digits[n + 1]>>
    ELSE NatToString(n \div 10) \o <<Digits[(n % 10) + 1]>>

RECURSIVE PadLeft(_, _)
PadLeft(s, n) == IF Len(s) >= n THEN s ELSE PadLeft(<<"0">> \o s, n)

\* String(v) for a number v
NumToString(v) ==
    IF v.k = "NaN" THEN <<"N", "a", "N">>
    ELSE LET mag == IF v.m < 0 THEN 0 - v.m ELSE v.m
             ds == PadLeft(NatToString(mag), v.e + 1)
             sign == IF v.m < 0 THEN <<"-">> ELSE <<>>
         IN  IF v.e = 0 THEN sign \o ds
             ELSE sign \o SubSeq(ds, 1, Len(ds) - v.e) \o <<".">>
                       \o SubSeq(ds, Len(ds) - v.e + 1, Len(ds))

\* /^-?\d+$/
IsIntegerText(s) ==
    LET u == IF s # <<>> /\ Head(s) = "-" THEN Tail(s) ELSE s
    IN  u # <<>> /\ \A i \in 1..Len(u) : IsDigit(u[i])

\* /^-?\d+\.\d+$/
IsDecimalText(s) ==
    LET u == IF s # <<>> /\ Head(s) = "-" THEN Tail(s) ELSE s
        ip == DigitRun(u)
        rest == SliceFrom(u, Len(ip))
    IN  /\ ip # <<>>
        /\ rest # <<>> /\ Head(rest) = "."
        /\ Len(rest) > 1
        /\ \A i \in 2..Len(rest) : IsDigit(rest[i])

\* a canonical array index, as object keys order them
IsArrayIndex(key) ==
    /\ key # <<>>
    /\ \A i \in 1..Len(key) : IsDigit(key[i])
    /\ key = NatToString(DigitsValue(key, 0))

IsStr(v) == v.k = "str"
IsNum(v) == v.k = "num" \/ v.k = "NaN"

\* JavaScript truthiness (if (x), !x, x || y)
Truthy(v) ==
    CASE v.k = "undefined" -> FALSE
      [] v.k = "null" -> FALSE
      [] v.k = "NaN" -> FALSE
      [] v.k = "bool" -> v.b
      [] v.k = "num" -> v.m # 0
      [] v.k = "str" -> v.s # <<>>
      [] OTHER -> TRUE

\* Object property access, assignment and spread
ObjKeys(o) == [i \in 1..Len(o.entries) |-> o.entries[i].key]
HasKey(o, key) == \E i \in 1..Len(o.entries) : o.entries[i].key = key
ObjGet(o, key) ==
    IF HasKey(o, key)
    THEN o.entries[CHOOSE i \in 1..Len(o.entries) : o.entries[i].key = key].val
    ELSE Undef
\* An own property is created after the existing ones, except that keys that
\* are canonical array indexes ("0", "1", ...) are kept first, in ascending order.
ObjSet(o, key, val) ==
    IF HasKey(o, key)
    THEN Obj([i \in 1..Len(o.entries) |->
                IF o.entries[i].key = key THEN Entry(key, val) ELSE o.entries[i]])
    ELSE IF IsArrayIndex(key)
    THEN LET n == Cardinality({i \in 1..Len(o.entries) :
                        /\ IsArrayIndex(o.entries[i].key)
                        /\ DigitsValue(o.entries[i].key, 0) < DigitsValue(key, 0)})
         IN  Obj(SubSeq(o.entries, 1, n) \o <<Entry(key, val)>>
                    \o SubSeq(o.entries, n + 1, Len(o.entries)))
    ELSE Obj(Append(o.entries, Entry(key, val)))

RECURSIVE ObjSpreadFrom(_, _, _)
ObjSpreadFrom(o, u, i) ==
    IF i > Len(u.entries) THEN o
    ELSE ObjSpreadFrom(ObjSet(o, u.entries[i].key, u.entries[i].val), u, i + 1)
\* { ...o, ...u }
ObjSpread(o, u) == ObjSpreadFrom(o, u, 1)

EmptyObj == Obj(<<>>)



(***************************************************************************)
(* The value grammar: parseValue, parseArray, parseDictionary              *)
(***************************************************************************)
kType == <<"_", "t", "y", "p", "e">>
kx == <<"x">>
ky == <<"y">>
kz == <<"z">>
kr == <<"r">>
kg == <<"g">>
kb == <<"b">>
ka == <<"a">>
kid == <<"i", "d">>
kpath == <<"p", "a", "t", "h">>

\* String(v), also the conversion a template literal applies
RECURSIVE JsString(_)
JsString(v) ==
    CASE v.k = "undefined" -> <<"u", "n", "d", "e", "f", "i", "n", "e", "d">>
      [] v.k = "null" -> <<"n", "u", "l", "l">>
      [] v.k = "bool" -> IF v.b THEN <<"t", "r", "u", "e">> ELSE <<"f", "a", "l", "s", "e">>
      [] v.k \in {"num", "NaN"} -> NumToString(v)
      [] v.k = "str" -> v.s
      [] v.k = "arr" ->
            Join([i \in 1..Len(v.items) |->
                    IF v.items[i].k \in {"undefined", "null"} THEN <<>>
                    ELSE JsString(v.items[i])], <<",">>)
      [] OTHER -> <<"[", "o", "b", "j", "e", "c", "t", " ", "O", "b", "j", "e", "c", "t", "]">>

\* the i-th of inner.split(",").map((s) => parseFloat(s.trim())), by destructuring
Component(parts, i) ==
    IF i <= Len(parts) THEN ParseFloat(Trim(parts[i])) ELSE Undef

\* .replace(/\\"/g, '"').replace(/\\\\/g, "\\")
Unescape(s) ==
    ReplacePair(ReplacePair(s, Backslash, Quote, <<Quote>>),
                Backslash, Backslash, <<Backslash>>)

\* The scan of parseArray and of parseDictionary over inner, character by
\* character.  inString flips at a quote that does not follow a backslash:
\* its value once inner[i] has been read.
InStringAt(inner, i) ==
    Cardinality({j \in 1..i :
        inner[j] = Quote /\ (j = 1 \/ inner[j - 1] # Backslash)}) % 2 = 1

\* depth once inner[i] has been read: openers less closers read outside strings
DepthAt(inner, i) ==
    Cardinality({j \in 1..i : ~InStringAt(inner, j) /\ inner[j] \in {"[", "{", "("}})
    - Cardinality({j \in 1..i : ~InStringAt(inner, j) /\ inner[j] \in {"]", "}", ")"}})

\* inner[i] is a comma read outside strings at depth 0
IsSeparator(inner, i) ==
    inner[i] = "," /\ ~InStringAt(inner, i) /\ DepthAt(inner, i) = 0

\* the trimmed segments between the separators of inner; the last one only
\* when it is not empty
SplitTopLevel(inner) ==
    LET raw == SplitAt(inner, {i \in 1..Len(inner) : IsSeparator(inner, i)})
        segs == [k \in 1..Len(raw) |-> Trim(raw[k])]
    IN  IF segs[Len(segs)] = <<>> THEN SubSeq(segs, 1, Len(segs) - 1) ELSE segs

RECURSIVE parseValue(_)
RECURSIVE parseArray(_)
RECURSIVE parseDictionary(_)
RECURSIVE DictFromPairs(_, _, _)

\* a default that also replaces a zero alpha
ColorAlpha_Falsy(a) == IF Truthy(a) THEN a ELSE Int_(1)

\* a ?? 1.0
ColorAlpha(a) == IF a = Undef \/ a = Null THEN Int_(1) ELSE a

parseValue(text) ==
    LET str == Trim(text)
    IN  CASE str = <<"n", "u", "l", "l">> -> Null
          [] str = <<"t", "r", "u", "e">> -> Bool(TRUE)
          [] str = <<"f", "a", "l", "s", "e">> -> Bool(FALSE)
          [] StartsWith(str, <<Quote>>) /\ EndsWith(str, <<Quote>>) ->
                Str(Unescape(SliceInner(str, 1)))
          [] IsIntegerText(str) -> ParseInt(str)
          [] IsDecimalText(str) -> ParseFloat(str)
          [] StartsWith(str, <<"V", "e", "c", "t", "o", "r", "2", "(">>) ->
                LET parts == SplitOn(SliceInner(str, 8), ",")
                IN  Obj(<<Entry(kType, Str(<<"V", "e", "c", "t", "o", "r", "2">>)),
                          Entry(kx, Component(parts, 1)), Entry(ky, Component(parts, 2))>>)
          [] StartsWith(str, <<"V", "e", "c", "t", "o", "r", "3", "(">>) ->
                LET parts == SplitOn(SliceInner(str, 8), ",")
                IN  Obj(<<Entry(kType, Str(<<"V", "e", "c", "t", "o", "r", "3">>)),
                          Entry(kx, Component(parts, 1)), Entry(ky, Component(parts, 2)),
                          Entry(kz, Component(parts, 3))>>)
          [] StartsWith(str, <<"C", "o", "l", "o", "r", "(">>) ->
                LET parts == SplitOn(SliceInner(str, 6), ",")
                    a == Component(parts, 4)
                IN  Obj(<<Entry(kType, Str(<<"C", "o", "l", "o", "r">>)),
                          Entry(kr, Component(parts, 1)), Entry(kg, Component(parts, 2)),
                          Entry(kb, Component(parts, 3)),
                          Entry(ka, ColorAlpha(a))>>)
          [] StartsWith(str, <<"E", "x", "t", "R", "e", "s", "o", "u", "r", "c", "e", "(">>) ->
                Obj(<<Entry(kType, Str(<<"E", "x", "t", "R", "e", "s", "o", "u", "r", "c", "e">>)),
                      Entry(kid, Str(ReplaceChar(SliceInner(str, 12), Quote, <<>>)))>>)
          [] StartsWith(str, <<"S", "u", "b", "R", "e", "s", "o", "u", "r", "c", "e", "(">>) ->
                Obj(<<Entry(kType, Str(<<"S", "u", "b", "R", "e", "s", "o", "u", "r", "c", "e">>)),
                      Entry(kid, Str(ReplaceChar(SliceInner(str, 12), Quote, <<>>)))>>)
          [] StartsWith(str, <<"N", "o", "d", "e", "P", "a", "t", "h", "(">>) ->
                Obj(<<Entry(kType, Str(<<"N", "o", "d", "e", "P", "a", "t", "h">>)),
                      Entry(kpath, Str(ReplaceChar(SliceInner(str, 9), Quote, <<>>)))>>)
          [] StartsWith(str, <<"[">>) -> parseArray(str)
          [] StartsWith(str, <<"{">>) -> parseDictionary(str)
          [] OTHER -> Str(str)

parseArray(text) ==
    LET str == Trim(text)
        inner == Trim(SliceInner(str, 1))
    IN  IF ~StartsWith(str, <<"[">>) \/ ~EndsWith(str, <<"]">>) THEN Arr(<<>>)
        ELSE IF inner = <<>> THEN Arr(<<>>)
        ELSE LET segs == SplitTopLevel(inner)
             IN  Arr([i \in 1..Len(segs) |-> parseValue(segs[i])])

DictFromPairs(pairs, i, result) ==
    IF i > Len(pairs) THEN result
    ELSE LET pair == pairs[i]
             colonIndex == IndexOf(pair, ":")
         IN  IF colonIndex = -1 THEN DictFromPairs(pairs, i + 1, result)
             ELSE DictFromPairs(pairs, i + 1,
                    ObjSet(result,
                           JsString(parseValue(Trim(SubSeq(pair, 1, colonIndex)))),
                           parseValue(Trim(SliceFrom(pair, colonIndex + 1)))))

parseDictionary(text) ==
    LET str == Trim(text)
        inner == Trim(SliceInner(str, 1))
    IN  IF ~StartsWith(str, <<"{">>) \/ ~EndsWith(str, <<"}">>) THEN EmptyObj
        ELSE IF inner = <<>> THEN EmptyObj
        ELSE DictFromPairs(SplitTopLevel(inner), 1, EmptyObj)


(***************************************************************************)
(* serializeValue                                                          *)
(***************************************************************************)
GodotValueNames ==
    { <<"E", "x", "t", "R", "e", "s", "o", "u", "r", "c", "e">>, <<"S", "u", "b", "R", "e", "s", "o", "u", "r", "c", "e">>, <<"V", "e", "c", "t", "o", "r", "2">>, <<"V", "e", "c", "t", "o", "r", "3">>, <<"C", "o", "l", "o", "r">>,
      <<"N", "o", "d", "e", "P", "a", "t", "h">>, <<"R", "e", "c", "t", "2">>, <<"T", "r", "a", "n", "s", "f", "o", "r", "m", "2", "D">>, <<"T", "r", "a", "n", "s", "f", "o", "r", "m", "3", "D">>, <<"B", "a", "s", "i", "s">>,
      <<"Q", "u", "a", "t", "e", "r", "n", "i", "o", "n">>, <<"A", "A", "B", "B">>, <<"P", "l", "a", "n", "e">> }

\* a test that knows the resource references only
isGodotValueString_ReferencesOnly(str) ==
    \E name \in {<<"E", "x", "t", "R", "e", "s", "o", "u", "r", "c", "e">>, <<"S", "u", "b", "R", "e", "s", "o", "u", "r", "c", "e">>} :
        /\ StartsWith(str, name)
        /\ StartsWith(TrimStart(SliceFrom(str, Len(name))), <<"(">>)

\* /^Name\s*\(/ for one of the names
isGodotValueString(str) ==
    \E name \in GodotValueNames :
        /\ StartsWith(str, name)
        /\ StartsWith(TrimStart(SliceFrom(str, Len(name))), <<"(">>)

\* `"${value.replace(/\\/g, "\\\\").replace(/"/g, '\\"')}"`
QuoteString(s) ==
    <<Quote>>
    \o ReplaceChar(ReplaceChar(s, Backslash, <<Backslash, Backslash>>),
                   Quote, <<Backslash, Quote>>)
    \o <<Quote>>

serializeString(s) ==
    IF isGodotValueString(s) THEN s ELSE QuoteString(s)

\* obj._type === name
HasType(o, name) == ObjGet(o, kType) = Str(name)
\* typeof obj.key === 'number'
IsNumberAt(o, key) == IsNum(ObjGet(o, key))
\* `Name(${obj.k1}, ${obj.k2}, ...)`
Constructor(name, o, keys) ==
    name \o <<"(">>
    \o Join([i \in 1..Len(keys) |-> JsString(ObjGet(o, keys[i]))], <<",", " ">>)
    \o <<")">>
\* `Name("${obj.key}")`
Reference(name, o, key) ==
    name \o <<"(", Quote>> \o JsString(ObjGet(o, key)) \o <<Quote, ")">>

RECURSIVE serializeValue(_)
serializeValue(value) ==
    CASE value.k = "null" -> <<"n", "u", "l", "l">>
      [] value.k = "bool" -> IF value.b THEN <<"t", "r", "u", "e">> ELSE <<"f", "a", "l", "s", "e">>
      [] value.k \in {"num", "NaN"} -> NumToString(value)
      [] value.k = "str" -> serializeString(value.s)
      [] value.k = "arr" ->
            <<"[">>
            \o Join([i \in 1..Len(value.items) |-> serializeValue(value.items[i])],
                    <<",", " ">>)
            \o <<"]">>
      [] value.k = "obj" ->
            IF HasType(value, <<"V", "e", "c", "t", "o", "r", "2">>)
            THEN Constructor(<<"V", "e", "c", "t", "o", "r", "2">>, value, <<kx, ky>>)
            ELSE IF HasType(value, <<"V", "e", "c", "t", "o", "r", "3">>)
            THEN Constructor(<<"V", "e", "c", "t", "o", "r", "3">>, value, <<kx, ky, kz>>)
            ELSE IF HasType(value, <<"C", "o", "l", "o", "r">>)
            THEN Constructor(<<"C", "o", "l", "o", "r">>, value, <<kr, kg, kb, ka>>)
            ELSE IF HasType(value, <<"E", "x", "t", "R", "e", "s", "o", "u", "r", "c", "e">>)
            THEN Reference(<<"E", "x", "t", "R", "e", "s", "o", "u", "r", "c", "e">>, value, kid)
            ELSE IF HasType(value, <<"S", "u", "b", "R", "e", "s", "o", "u", "r", "c", "e">>)
            THEN Reference(<<"S", "u", "b", "R", "e", "s", "o", "u", "r", "c", "e">>, value, kid)
            ELSE IF HasType(value, <<"N", "o", "d", "e", "P", "a", "t", "h">>)
            THEN Reference(<<"N", "o", "d", "e", "P", "a", "t", "h">>, value, kpath)
            ELSE IF /\ Len(value.entries) = 2
                    /\ HasKey(value, kx) /\ HasKey(value, ky)
                    /\ IsNumberAt(value, kx) /\ IsNumberAt(value, ky)
            THEN Constructor(<<"V", "e", "c", "t", "o", "r", "2">>, value, <<kx, ky>>)
            ELSE IF /\ Len(value.entries) = 3
                    /\ HasKey(value, kx) /\ HasKey(value, ky) /\ HasKey(value, kz)
                    /\ IsNumberAt(value, kx) /\ IsNumberAt(value, ky)
                    /\ IsNumberAt(value, kz)
            THEN Constructor(<<"V", "e", "c", "t", "o", "r", "3">>, value, <<kx, ky, kz>>)
            ELSE IF /\ HasKey(value, kr) /\ HasKey(value, kg) /\ HasKey(value, kb)
                    /\ IsNumberAt(value, kr) /\ IsNumberAt(value, kg)
                    /\ IsNumberAt(value, kb)
            THEN Constructor(<<"C", "o", "l", "o", "r">>,
                    ObjSet(value, ka,
                           IF IsNumberAt(value, ka) THEN ObjGet(value, ka) ELSE Int_(1)),
                    <<kr, kg, kb, ka>>)
            ELSE LET shown == SelectSeq(value.entries,
                                        LAMBDA en : ~StartsWith(en.key, <<"_">>))
                 IN  <<"{">>
                     \o Join([i \in 1..Len(shown) |->
                                serializeString(shown[i].key) \o <<":", " ">>
                                \o serializeValue(shown[i].val)], <<",", " ">>)
                     \o <<"}">>
      [] OTHER -> JsString(value)


(***************************************************************************)
(* The document parser                                                     *)
(***************************************************************************)
\* One match of /(\w+)=(?:"([^"]*)"|(\[[^\]]*\])|([^\s\]]+))/ starting at
\* position i of line: whether there is one, its key, its value by the
\* priority of line 245, and the position of its last character.
MatchAt(line, i) ==
    LET n == Len(line)
        \* \w+ is greedy and must be followed by "="
        wordEnd == IF \A j \in i..n : IsWordChar(line[j]) THEN n
                   ELSE (CHOOSE j \in i..n :
                            ~IsWordChar(line[j]) /\ \A q \in i..(j - 1) : IsWordChar(line[q])) - 1
        v == wordEnd + 2
        closers(c) == {j \in (v + 1)..n : line[j] = c}
        first(S) == CHOOSE j \in S : \A q \in S : j <= q
        bareEnd == IF \A j \in v..n : ~IsSpace(line[j]) /\ line[j] # "]" THEN n
                   ELSE (CHOOSE j \in v..n :
                            /\ IsSpace(line[j]) \/ line[j] = "]"
                            /\ \A q \in v..(j - 1) : ~IsSpace(line[q]) /\ line[q] # "]") - 1
        none == [ok |-> FALSE, key |-> <<>>, value |-> <<>>, end |-> i]
    IN  IF i > n \/ ~IsWordChar(line[i]) THEN none
        ELSE IF wordEnd + 1 > n \/ line[wordEnd + 1] # "=" THEN none
        ELSE IF v > n THEN none
        ELSE IF line[v] = Quote /\ closers(Quote) # {}
        THEN [ok |-> TRUE, key |-> SubSeq(line, i, wordEnd),
              value |-> SubSeq(line, v + 1, first(closers(Quote)) - 1),
              end |-> first(closers(Quote))]
        ELSE IF line[v] = "[" /\ closers("]") # {}
        THEN [ok |-> TRUE, key |-> SubSeq(line, i, wordEnd),
              value |-> SubSeq(line, v, first(closers("]"))),
              end |-> first(closers("]"))]
        ELSE IF bareEnd >= v
        THEN [ok |-> TRUE, key |-> SubSeq(line, i, wordEnd),
              value |-> SubSeq(line, v, bareEnd), end |-> bareEnd]
        ELSE none

RECURSIVE AttributesFrom(_, _, _)
\* the while loop of parseAttributes: regex.exec from position pos on
AttributesFrom(line, pos, attrs) ==
    LET starts == {i \in pos..Len(line) : MatchAt(line, i).ok}
    IN  IF starts = {} THEN attrs
        ELSE LET m == MatchAt(line, CHOOSE i \in starts : \A q \in starts : i <= q)
             IN  AttributesFrom(line, m.end + 1, ObjSet(attrs, m.key, Str(m.value)))

parseAttributes(line) == AttributesFrom(line, 1, EmptyObj)

\* attrs.key || ""
AttrOrEmpty(attrs, key) ==
    IF Truthy(ObjGet(attrs, key)) THEN ObjGet(attrs, key).s ELSE <<>>
\* attrs.key ? parseInt(attrs.key, 10) : otherwise
AttrInt(attrs, key, otherwise) ==
    IF Truthy(ObjGet(attrs, key)) THEN ParseInt(ObjGet(attrs, key).s) ELSE otherwise
\* attrs.key ? this.parseArray(attrs.key) : undefined
AttrArray(attrs, key) ==
    IF Truthy(ObjGet(attrs, key)) THEN parseArray(ObjGet(attrs, key).s) ELSE Undef

sGdScene == <<"g", "d", "_", "s", "c", "e", "n", "e">>
sGdResource == <<"g", "d", "_", "r", "e", "s", "o", "u", "r", "c", "e">>

\* a default header that leaves the format out
DefaultHeader_NoFormat ==
    [type |-> sGdScene, loadSteps |-> Undef, format |-> Undef, uid |-> Undef]

DefaultHeader ==
    [type |-> sGdScene, loadSteps |-> Undef, format |-> Int_(3), uid |-> Undef]

\* the header record built from the attributes of its line
HeaderOf(line, attrs) ==
        [type |-> IF StartsWith(line, <<"[", "g", "d", "_", "s", "c", "e", "n", "e">>) THEN sGdScene ELSE sGdResource,
         loadSteps |-> AttrInt(attrs, <<"l", "o", "a", "d", "_", "s", "t", "e", "p", "s">>, Undef),
         format |-> AttrInt(attrs, <<"f", "o", "r", "m", "a", "t">>, Int_(3)),
         uid |-> ObjGet(attrs, <<"u", "i", "d">>)]

parseHeader(line) == HeaderOf(line, parseAttributes(line))

ExtResourceOf(attrs) ==
        [type |-> AttrOrEmpty(attrs, <<"t", "y", "p", "e">>),
         path |-> AttrOrEmpty(attrs, <<"p", "a", "t", "h">>),
         id |-> AttrOrEmpty(attrs, <<"i", "d">>),
         uid |-> ObjGet(attrs, <<"u", "i", "d">>)]

parseExtResource(line) == ExtResourceOf(parseAttributes(line))

parseProperty(line) ==
    LET eqIndex == IndexOf(line, "=")
    IN  IF eqIndex = -1 THEN [key |-> <<>>, value |-> Null]
        ELSE [key |-> Trim(SubSeq(line, 1, eqIndex)),
              value |-> parseValue(Trim(SliceFrom(line, eqIndex + 1)))]

\* if (key) properties[key] = value
SetProperty(properties, p) ==
    IF p.key # <<>> THEN ObjSet(properties, p.key, p.value) ELSE properties

RECURSIVE ParseBlock(_, _, _)
\* the property loop of parseSubResource and parseNode, from 0-based line index
ParseBlock(lines, index, properties) ==
    IF index >= Len(lines) THEN [properties |-> properties, newIndex |-> index]
    ELSE LET line == Trim(lines[index + 1])
         IN  IF line = <<>> \/ StartsWith(line, <<"[">>)
             THEN [properties |-> properties, newIndex |-> index]
             ELSE ParseBlock(lines, index + 1, SetProperty(properties, parseProperty(line)))

SubResourceOf(attrs, block) ==
        [subResource |-> [type |-> AttrOrEmpty(attrs, <<"t", "y", "p", "e">>),
                          id |-> AttrOrEmpty(attrs, <<"i", "d">>),
                          properties |-> block.properties],
         newIndex |-> block.newIndex]

parseSubResource(lines, startIndex) ==
    SubResourceOf(parseAttributes(Trim(lines[startIndex + 1])),
                  ParseBlock(lines, startIndex + 1, EmptyObj))

NodeOf(attrs, block) ==
        [node |-> [name |-> AttrOrEmpty(attrs, <<"n", "a", "m", "e">>),
                   type |-> ObjGet(attrs, <<"t", "y", "p", "e">>),
                   parent |-> ObjGet(attrs, <<"p", "a", "r", "e", "n", "t">>),
                   instance |-> ObjGet(attrs, <<"i", "n", "s", "t", "a", "n", "c", "e">>),
                   instancePlaceholder |-> ObjGet(attrs, <<"i", "n", "s", "t", "a", "n", "c", "e", "_", "p", "l", "a", "c", "e", "h", "o", "l", "d", "e", "r">>),
                   owner |-> ObjGet(attrs, <<"o", "w", "n", "e", "r">>),
                   index |-> AttrInt(attrs, <<"i", "n", "d", "e", "x">>, Undef),
                   groups |-> AttrArray(attrs, <<"g", "r", "o", "u", "p", "s">>),
                   properties |-> block.properties],
         newIndex |-> block.newIndex]

\* a block parser that hands back the index of its own header line
parseNode_NoAdvance(lines, startIndex) ==
    NodeOf(parseAttributes(Trim(lines[startIndex + 1])),
           [properties |-> EmptyObj, newIndex |-> startIndex])

parseNode(lines, startIndex) ==
    NodeOf(parseAttributes(Trim(lines[startIndex + 1])),
           ParseBlock(lines, startIndex + 1, EmptyObj))

ConnectionOf(attrs) ==
        [signal |-> AttrOrEmpty(attrs, <<"s", "i", "g", "n", "a", "l">>),
         from |-> AttrOrEmpty(attrs, <<"f", "r", "o", "m">>),
         to |-> AttrOrEmpty(attrs, <<"t", "o">>),
         method |-> AttrOrEmpty(attrs, <<"m", "e", "t", "h", "o", "d">>),
         flags |-> AttrInt(attrs, <<"f", "l", "a", "g", "s">>, Undef),
         binds |-> AttrArray(attrs, <<"b", "i", "n", "d", "s">>)]

parseConnection(line) == ConnectionOf(parseAttributes(line))

EmptyDocument ==
    [header |-> DefaultHeader, externalResources |-> <<>>, subResources |-> <<>>,
     nodes |-> <<>>, connections |-> <<>>]

\* result.subResources.push(subResource); index = newIndex
PushSubResource(result, r) ==
    [result |-> [result EXCEPT !.subResources = Append(@, r.subResource)], index |-> r.newIndex]

\* result.nodes.push(node); index = newIndex
PushNode(result, r) ==
    [result |-> [result EXCEPT !.nodes = Append(@, r.node)], index |-> r.newIndex]

RECURSIVE ParseLines(_, _, _), ParseLinesAfter(_, _)
\* the dispatch loop of parse, from 0-based line index
ParseLines(lines, index, result) ==
    IF index >= Len(lines) THEN result
    ELSE LET line == Trim(lines[index + 1])
         IN  IF StartsWith(line, <<"[", "g", "d", "_", "s", "c", "e", "n", "e">>) \/ StartsWith(line, <<"[", "g", "d", "_", "r", "e", "s", "o", "u", "r", "c", "e">>)
             THEN ParseLines(lines, index + 1, [result EXCEPT !.header = parseHeader(line)])
             ELSE IF StartsWith(line, <<"[", "e", "x", "t", "_", "r", "e", "s", "o", "u", "r", "c", "e">>)
             THEN ParseLines(lines, index + 1,
                    [result EXCEPT !.externalResources = Append(@, parseExtResource(line))])
             ELSE IF StartsWith(line, <<"[", "s", "u", "b", "_", "r", "e", "s", "o", "u", "r", "c", "e">>)
             THEN ParseLinesAfter(lines, PushSubResource(result, parseSubResource(lines, index)))
             ELSE IF StartsWith(line, <<"[", "n", "o", "d", "e">>)
             THEN ParseLinesAfter(lines, PushNode(result, parseNode(lines, index)))
             ELSE IF StartsWith(line, <<"[", "c", "o", "n", "n", "e", "c", "t", "i", "o", "n">>)
             THEN ParseLines(lines, index + 1,
                    [result EXCEPT !.connections = Append(@, parseConnection(line))])
             ELSE ParseLines(lines, index + 1, result)

\* the loop continues from the index a block parser returned
ParseLinesAfter(lines, next) == ParseLines(lines, next.index, next.result)

Newline == "\n"

parse(content) == ParseLines(SplitOn(content, Newline), 0, EmptyDocument)


(***************************************************************************)
(* The document serializer                                                 *)
(***************************************************************************)
Space == <<" ">>
\* ` key="${value}"`
QuotedAttr(key, value) == Space \o key \o <<"=", Quote>> \o value \o <<Quote>>
\* ` key=${value}`
BareAttr(key, value) == Space \o key \o <<"=">> \o value

serializeHeader(header) ==
    Join(<<<<"[">> \o header.type>>
         \o (IF Truthy(header.loadSteps)
             THEN <<<<"l", "o", "a", "d", "_", "s", "t", "e", "p", "s", "=">> \o JsString(header.loadSteps)>> ELSE <<>>)
         \o <<<<"f", "o", "r", "m", "a", "t", "=">> \o JsString(header.format)>>
         \o (IF Truthy(header.uid)
             THEN <<<<"u", "i", "d", "=", "\"">> \o JsString(header.uid) \o <<Quote>>>> ELSE <<>>),
         Space)
    \o <<"]">>

serializeExtResource(res) ==
    <<"[", "e", "x", "t", "_", "r", "e", "s", "o", "u", "r", "c", "e">> \o QuotedAttr(<<"t", "y", "p", "e">>, res.type) \o QuotedAttr(<<"p", "a", "t", "h">>, res.path)
    \o (IF Truthy(res.uid) THEN QuotedAttr(<<"u", "i", "d">>, JsString(res.uid)) ELSE <<>>)
    \o QuotedAttr(<<"i", "d">>, res.id) \o <<"]">>

\* one `${key} = ${this.serializeValue(value)}` line per entry
PropertyLines(properties) ==
    [i \in 1..Len(properties.entries) |->
        properties.entries[i].key \o <<" ", "=", " ">>
        \o serializeValue(properties.entries[i].val)]

serializeSubResource(res) ==
    <<<<"[", "s", "u", "b", "_", "r", "e", "s", "o", "u", "r", "c", "e">> \o QuotedAttr(<<"t", "y", "p", "e">>, res.type) \o QuotedAttr(<<"i", "d">>, res.id)
        \o <<"]">>>>
    \o PropertyLines(res.properties)

serializeNode(node) ==
    << <<"[", "n", "o", "d", "e">> \o QuotedAttr(<<"n", "a", "m", "e">>, node.name)
       \o (IF Truthy(node.type) THEN QuotedAttr(<<"t", "y", "p", "e">>, JsString(node.type)) ELSE <<>>)
       \o (IF node.parent # Undef
           THEN QuotedAttr(<<"p", "a", "r", "e", "n", "t">>, JsString(node.parent)) ELSE <<>>)
       \o (IF Truthy(node.instance)
           THEN BareAttr(<<"i", "n", "s", "t", "a", "n", "c", "e">>, JsString(node.instance)) ELSE <<>>)
       \o (IF Truthy(node.instancePlaceholder)
           THEN QuotedAttr(<<"i", "n", "s", "t", "a", "n", "c", "e", "_", "p", "l", "a", "c", "e", "h", "o", "l", "d", "e", "r">>, JsString(node.instancePlaceholder))
           ELSE <<>>)
       \o (IF Truthy(node.owner) THEN QuotedAttr(<<"o", "w", "n", "e", "r">>, JsString(node.owner)) ELSE <<>>)
       \o (IF node.index # Undef THEN BareAttr(<<"i", "n", "d", "e", "x">>, JsString(node.index)) ELSE <<>>)
       \o (IF Truthy(node.groups) /\ Len(node.groups.items) > 0
           THEN BareAttr(<<"g", "r", "o", "u", "p", "s">>, serializeValue(node.groups)) ELSE <<>>)
       \o <<"]">> >>
    \o PropertyLines(node.properties)

serializeConnection(conn) ==
    <<"[", "c", "o", "n", "n", "e", "c", "t", "i", "o", "n">> \o QuotedAttr(<<"s", "i", "g", "n", "a", "l">>, conn.signal)
    \o QuotedAttr(<<"f", "r", "o", "m">>, conn.from) \o QuotedAttr(<<"t", "o">>, conn.to)
    \o QuotedAttr(<<"m", "e", "t", "h", "o", "d">>, conn.method)
    \o (IF conn.flags # Undef THEN BareAttr(<<"f", "l", "a", "g", "s">>, JsString(conn.flags)) ELSE <<>>)
    \o (IF Truthy(conn.binds) /\ Len(conn.binds.items) > 0
        THEN BareAttr(<<"b", "i", "n", "d", "s">>, serializeValue(conn.binds)) ELSE <<>>)
    \o <<"]">>

serialize(s) ==
    LET lines ==
            <<serializeHeader(s.header), <<>>>>
            \o [i \in 1..Len(s.externalResources) |->
                    serializeExtResource(s.externalResources[i])]
            \o (IF Len(s.externalResources) > 0 THEN <<<<>>>> ELSE <<>>)
            \o Flatten([i \in 1..Len(s.subResources) |->
                    serializeSubResource(s.subResources[i]) \o <<<<>>>>])
            \o Flatten([i \in 1..Len(s.nodes) |-> serializeNode(s.nodes[i]) \o <<<<>>>>])
            \o [i \in 1..Len(s.connections) |-> serializeConnection(s.connections[i])]
    IN  Trim(Join(lines, <<Newline>>)) \o <<Newline>>

(***************************************************************************)
(* Mutation helpers                                                        *)
(***************************************************************************)
Dot == <<".">>
Slash == <<"/">>

getNodePath_NameOnly(node) == node.name

\* getNodePath, the closure of removeNode and of modifyNode
getNodePath(node) ==
    IF ~Truthy(node.parent) THEN node.name
    ELSE IF node.parent.s = Dot THEN node.name
    ELSE node.parent.s \o Slash \o node.name

updateLoadSteps_NoPlusOne(s) ==
    [s EXCEPT !.header.loadSteps =
        Int_(Len(s.externalResources) + Len(s.subResources))]

updateLoadSteps(s) ==
    [s EXCEPT !.header.loadSteps =
        Int_(Len(s.externalResources) + Len(s.subResources) + 1)]

\* an addNode that pushes the argument as it is
addNode_NoDefault(s, node) ==
    updateLoadSteps([s EXCEPT !.nodes = Append(s.nodes, node)])

addNode(s, node) ==
    updateLoadSteps(
        [s EXCEPT !.nodes = Append(s.nodes,
            [node EXCEPT !.properties =
                IF Truthy(node.properties) THEN node.properties ELSE EmptyObj])])

\* node.parent?.startsWith(nodePath)
ParentStartsWith(node, nodePath) ==
    /\ IsStr(node.parent)
    /\ StartsWith(node.parent.s, nodePath)

pathsToRemove(s, nodePath) ==
    {nodePath} \cup
    {getNodePath(s.nodes[i]) : i \in
        {j \in 1..Len(s.nodes) :
            \/ StartsWith(getNodePath(s.nodes[j]), nodePath \o Slash)
            \/ ParentStartsWith(s.nodes[j], nodePath)}}

FilterConnections_FromOnly(conns, paths) ==
    SelectSeq(conns, LAMBDA c : c.from \notin paths)

FilterConnections(conns, paths) ==
    SelectSeq(conns, LAMBDA c : c.from \notin paths /\ c.to \notin paths)

removeNode(s, nodePath) ==
    LET paths == pathsToRemove(s, nodePath)
    IN  updateLoadSteps(
            [s EXCEPT
                !.nodes = SelectSeq(s.nodes, LAMBDA n : getNodePath(n) \notin paths),
                !.connections = FilterConnections(s.connections, paths)])

\* scene.nodes.find((n) => getNodePath(n) === nodePath): the index, 0 when absent
FindNode(s, nodePath) ==
    IF \E i \in 1..Len(s.nodes) : getNodePath(s.nodes[i]) = nodePath
    THEN CHOOSE i \in 1..Len(s.nodes) :
            /\ getNodePath(s.nodes[i]) = nodePath
            /\ \A j \in 1..(i - 1) : getNodePath(s.nodes[j]) # nodePath
    ELSE 0

MergeProperties_Replace(old, new) == new

MergeProperties(old, new) == ObjSpread(old, new)

\* an override that also takes the parent from updates
ApplyUpdates_WithParent(node, updates) ==
    LET n0 == IF "parent" \in DOMAIN updates THEN [node EXCEPT !.parent = updates.parent]
              ELSE node
        n1 == IF updates.name # Undef THEN [n0 EXCEPT !.name = updates.name.s] ELSE n0
        n2 == IF updates.type # Undef THEN [n1 EXCEPT !.type = updates.type] ELSE n1
        n3 == IF updates.groups # Undef THEN [n2 EXCEPT !.groups = updates.groups] ELSE n2
    IN  IF updates.properties # Undef
        THEN [n3 EXCEPT !.properties = MergeProperties(n3.properties, updates.properties)]
        ELSE n3

ApplyUpdates(node, updates) ==
    LET n1 == IF updates.name # Undef THEN [node EXCEPT !.name = updates.name.s] ELSE node
        n2 == IF updates.type # Undef THEN [n1 EXCEPT !.type = updates.type] ELSE n1
        n3 == IF updates.groups # Undef THEN [n2 EXCEPT !.groups = updates.groups] ELSE n2
    IN  IF updates.properties # Undef
        THEN [n3 EXCEPT !.properties = MergeProperties(n3.properties, updates.properties)]
        ELSE n3

\* the Document after the call, and the boolean the call returns
modifyNode(s, nodePath, updates) ==
    LET i == FindNode(s, nodePath)
    IN  IF i = 0
        THEN [scene |-> s, result |-> FALSE]
        ELSE [scene |-> [s EXCEPT !.nodes[i] = ApplyUpdates(s.nodes[i], updates)],
              result |-> TRUE]

(***************************************************************************)
(* Documents the mutation helpers are called on                            *)
(***************************************************************************)
MaxSteps == 2

Node(name, type, parent, properties) ==
    [name |-> name, type |-> type, parent |-> parent, instance |-> Undef,
     instancePlaceholder |-> Undef, owner |-> Undef, index |-> Undef,
     groups |-> Undef, properties |-> properties]

Connection(signal, from, to, method) ==
    [signal |-> signal, from |-> from, to |-> to, method |-> method,
     flags |-> Undef, binds |-> Undef]

Header(loadSteps) ==
    [type |-> <<"g", "d", "_", "s", "c", "e", "n", "e">>, loadSteps |-> loadSteps,
     format |-> Int_(3), uid |-> Undef]

sR == <<"R">>
sA == <<"A">>
sAB == <<"A", "B">>
sB == <<"B">>
sX == <<"X">>
sY == <<"Y">>
sZ == <<"Z">>
sAX == <<"A", "/", "X">>
sABX == <<"A", "B", "/", "X">>
sAXY == <<"A", "/", "X", "/", "Y">>
sT == <<"N", "o", "d", "e">>
kp == <<"p">>
kq == <<"q">>

\* A tree whose node names share prefixes: R, R/A, R/AB, R/A/X, R/AB/X, R/A/X/Y
NodePool ==
    << Node(sR, Str(sT), Undef, EmptyObj),
       Node(sA, Str(sT), Str(Dot), Obj(<<Entry(kp, Int_(1)), Entry(kr, Int_(1))>>)),
       Node(sAB, Str(sT), Str(Dot), EmptyObj),
       Node(sX, Str(sT), Str(sA), EmptyObj),
       Node(sX, Undef, Str(sAB), Obj(<<Entry(kp, Int_(1))>>)),
       Node(sY, Str(sT), Str(sAX), EmptyObj) >>

RECURSIVE Pick(_, _, _)
\* the subsequence of seq at the indexes of S, from index i on
Pick(seq, S, i) ==
    IF i > Len(seq) THEN <<>>
    ELSE (IF i \in S THEN <<seq[i]>> ELSE <<>>) \o Pick(seq, S, i + 1)

InitNodeSets == {{}, {1}, {1, 2}, {1, 2, 4}, {1, 2, 3, 5}, {1, 2, 3, 4, 5}, {1, 2, 4, 6},
                 {1, 2, 3, 4, 5, 6}}

ConnectionPool ==
    << Connection(<<"s">>, sAB, sA, <<"m">>),
       Connection(<<"s">>, sABX, sAB, <<"m">>),
       Connection(<<"s">>, sAX, Dot, <<"m">>) >>

InitConnectionSets == {{}, {2}, {1, 2, 3}}

ExtRes == [type |-> <<"T">>, path |-> <<"r">>, id |-> <<"1">>, uid |-> Undef]

\* load_steps as a file may declare it: absent, consistent, or any other number
InitLoadSteps(nres) == {Undef, Int_(nres + 1), Int_(5)}

InitScenes ==
    {[header |-> Header(ls), externalResources |-> ext, subResources |-> <<>>,
      nodes |-> Pick(NodePool, ns, 1), connections |-> Pick(ConnectionPool, cs, 1)] :
        <<ns, cs, ext, ls>> \in
            {q \in InitNodeSets \X InitConnectionSets \X {<<>>, <<ExtRes>>} \X
                    {Undef, Int_(1), Int_(2), Int_(5)} :
                q[4] \in InitLoadSteps(Len(q[3]))}}

AddPool ==
    { Node(sB, Str(sT), Str(Dot), Undef),
      Node(sX, Str(sT), Str(sA), Obj(<<Entry(kp, Int_(1))>>)),
      Node(sY, Undef, Str(sZ), EmptyObj) }

RemovePaths == {sA, sAB, sAX, sR, sZ, <<>>, Dot}

ModifyPaths == {sA, sABX, sX, sZ}

Updates(name, type, groups, properties) ==
    [name |-> name, type |-> type, groups |-> groups, properties |-> properties]

UpdatePool ==
    { Updates(Undef, Undef, Undef, Obj(<<Entry(kp, Int_(2)), Entry(kq, Int_(1))>>)),
      Updates(Str(sB), Undef, Undef, Undef),
      Updates(Undef, Str(<<"L">>), Arr(<<Str(<<"g">>)>>), Obj(<<>>)),
      Updates(Undef, Undef, Undef, Undef),
      \* updates that also carry fields modifyNode does not look at
      [name |-> Undef, type |-> Str(<<"L">>), groups |-> Undef, properties |-> Undef,
       parent |-> Str(sZ), index |-> Int_(7), owner |-> Str(sR), instance |-> Str(sT)] }

NoCall == [name |-> "none"]

InitMutation ==
    /\ scene \in InitScenes
    /\ before = scene
    /\ call = NoCall
    /\ steps = 0
    /\ recomputed = FALSE
    /\ pc = Idle /\ input = Idle /\ output = Idle

AddNode ==
    \E node \in AddPool :
        /\ steps < MaxSteps
        /\ scene' = addNode(scene, node)
        /\ before' = scene
        /\ call' = [name |-> "addNode", node |-> node]
        /\ steps' = steps + 1
        /\ recomputed' = TRUE
        /\ UNCHANGED <<pc, input, output>>

RemoveNode ==
    \E nodePath \in RemovePaths :
        /\ steps < MaxSteps
        /\ scene' = removeNode(scene, nodePath)
        /\ before' = scene
        /\ call' = [name |-> "removeNode", nodePath |-> nodePath]
        /\ steps' = steps + 1
        /\ recomputed' = TRUE
        /\ UNCHANGED <<pc, input, output>>

ModifyNode ==
    \E nodePath \in ModifyPaths, updates \in UpdatePool :
        LET r == modifyNode(scene, nodePath, updates)
        IN  /\ steps < MaxSteps
            /\ scene' = r.scene
            /\ before' = scene
            /\ call' = [name |-> "modifyNode", nodePath |-> nodePath,
                        updates |-> updates, result |-> r.result]
            /\ steps' = steps + 1
            /\ UNCHANGED <<recomputed, pc, input, output>>

NextMutation == AddNode \/ RemoveNode \/ ModifyNode

SpecMutation == InitMutation /\ [][NextMutation]_vars

(***************************************************************************)
(* Claims about the mutation helpers                                       *)
(***************************************************************************)
\* The computed path of a node as the specification defines it: the own name
\* when the parent is absent or ".", otherwise parent + "/" + name.
ComputedPath(node) ==
    IF node.parent = Undef \/ node.parent = Str(Dot) \/ node.parent = Str(<<>>)
    THEN node.name
    ELSE node.parent.s \o Slash \o node.name

PathsOf(nodes) == {ComputedPath(nodes[i]) : i \in 1..Len(nodes)}
Range(seq) == {seq[i] : i \in 1..Len(seq)}

\* path is P or a descendant of P
InSubtree(path, P) == path = P \/ StartsWith(path, P \o Slash)

\* C4: removeNode(scene, P) removes exactly the node at P and its descendants
\* (computed path starting with P + "/"); every other node stays, unchanged and
\* in its original relative order.
C4_RemovesExactlySubtree ==
    (call.name = "removeNode" /\ call.nodePath \in PathsOf(before.nodes)) =>
        scene.nodes =
            SelectSeq(before.nodes,
                      LAMBDA n : ~InSubtree(ComputedPath(n), call.nodePath))

RemovedPaths == PathsOf(before.nodes) \ PathsOf(scene.nodes)

\* C5: after removeNode no connection has a removed node's path as from or to,
\* and every connection between two nodes that were not removed is still
\* present, in its original order.
C5_ConnectionsFollowNodes ==
    call.name = "removeNode" =>
        /\ \A i \in 1..Len(scene.connections) :
                /\ scene.connections[i].from \notin RemovedPaths
                /\ scene.connections[i].to \notin RemovedPaths
        /\ scene.connections =
                SelectSeq(before.connections,
                          LAMBDA c : c \in Range(scene.connections))
        /\ \A i \in 1..Len(before.connections) :
                (/\ before.connections[i].from \in PathsOf(scene.nodes)
                 /\ before.connections[i].to \in PathsOf(scene.nodes))
                    => before.connections[i] \in Range(scene.connections)

\* a removeNode call removed a node, dropped a connection into it and kept a
\* connection between two remaining nodes
C5_Witness ==
    /\ call.name = "removeNode"
    /\ RemovedPaths # {}
    /\ Len(scene.connections) < Len(before.connections)
    /\ \E i \in 1..Len(scene.connections) :
            /\ scene.connections[i].from \in PathsOf(scene.nodes)
            /\ scene.connections[i].to \in PathsOf(scene.nodes)

IndexAt(nodes, P) ==
    CHOOSE i \in 1..Len(nodes) :
        /\ ComputedPath(nodes[i]) = P
        /\ \A j \in 1..(i - 1) : ComputedPath(nodes[j]) # P

KeySet(o) == {o.entries[i].key : i \in 1..Len(o.entries)}

\* C6: modifyNode(scene, P, {properties: U}) on an existing node returns true and
\* shallow-merges U into the node's properties.
C6_ModifyMergesProperties ==
    (/\ call.name = "modifyNode"
     /\ call.nodePath \in PathsOf(before.nodes)
     /\ call.updates.properties # Undef) =>
        LET i == IndexAt(before.nodes, call.nodePath)
            old == before.nodes[i].properties
            new == scene.nodes[i].properties
            U == call.updates.properties
        IN  /\ call.result = TRUE
            /\ KeySet(new) = KeySet(old) \cup KeySet(U)
            /\ \A key \in KeySet(U) : ObjGet(new, key) = ObjGet(U, key)
            /\ \A key \in KeySet(old) \ KeySet(U) : ObjGet(new, key) = ObjGet(old, key)

\* a merge that overrides one key, adds one and keeps one
C6_Witness ==
    /\ call.name = "modifyNode"
    /\ call.nodePath \in PathsOf(before.nodes)
    /\ call.updates.properties # Undef
    /\ LET i == IndexAt(before.nodes, call.nodePath)
           old == before.nodes[i].properties
           U == call.updates.properties
       IN  /\ KeySet(old) \cap KeySet(U) # {}
           /\ KeySet(old) \ KeySet(U) # {}
           /\ KeySet(U) \ KeySet(old) # {}
           /\ \E key \in KeySet(U) : ObjGet(old, key) \notin {Undef, ObjGet(U, key)}

\* C7: modifyNode on a path no node has returns false and leaves the whole
\* Document unchanged.
C7_ModifyMissingIsNoOp ==
    (call.name = "modifyNode" /\ call.nodePath \notin PathsOf(before.nodes)) =>
        call.result = FALSE /\ scene = before

\* a failed lookup in a Document that has nodes, one of them with the name asked for
C7_Witness ==
    /\ call.name = "modifyNode"
    /\ call.nodePath \notin PathsOf(before.nodes)
    /\ \E i \in 1..Len(before.nodes) : before.nodes[i].name = call.nodePath
    /\ call.updates.properties # Undef
    /\ call.result = FALSE

LoadStepsConsistent(s) ==
    s.header.loadSteps = Int_(Len(s.externalResources) + Len(s.subResources) + 1)

\* C8 as stated: after any sequence of addNode, removeNode and modifyNode calls,
\* header.loadSteps, when present, equals
\* externalResources.length + subResources.length + 1.
C8_LoadStepsAfterAnyCall ==
    (steps > 0 /\ scene.header.loadSteps # Undef) => LoadStepsConsistent(scene)

\* C8 amended: once addNode or removeNode has been called, header.loadSteps
\* equals externalResources.length + subResources.length + 1; modifyNode leaves
\* header.loadSteps as it was.
C8_LoadStepsAfterAddOrRemove ==
    /\ recomputed => LoadStepsConsistent(scene)
    /\ call.name = "modifyNode" => scene.header.loadSteps = before.header.loadSteps

\* addNode or removeNode repaired a load_steps that was wrong, and a later
\* successful modifyNode kept it
C8_Witness ==
    /\ recomputed
    /\ call.name = "modifyNode"
    /\ call.result = TRUE
    /\ Len(scene.externalResources) = 1
    /\ LoadStepsConsistent(scene)

(***************************************************************************)
(* serializeValue and parseValue on strings                                *)
(***************************************************************************)
MaxStrLen == 3

SeqsUpTo(alphabet, n) == UNION {[1..len -> alphabet] : len \in 0..n}

\* strings of ordinary characters, quotes and backslashes; some of them begin
\* like a constructor call
StringInputs ==
    SeqsUpTo({"a", Quote, Backslash}, MaxStrLen)
    \cup {name \o <<"(">> \o rest :
            name \in {<<"C", "o", "l", "o", "r">>, <<"R", "e", "c", "t", "2">>}, rest \in SeqsUpTo({"a", Quote}, 1)}

InitString ==
    /\ input \in StringInputs
    /\ pc = "start"
    /\ output = Idle
    /\ scene = Idle /\ before = Idle /\ call = NoCall /\ steps = 0 /\ recomputed = FALSE

SerializeString ==
    /\ pc = "start"
    /\ pc' = "serialized"
    /\ output' = [text |-> serializeValue(Str(input))]
    /\ UNCHANGED <<scene, before, call, steps, recomputed, input>>

ParseString ==
    /\ pc = "serialized"
    /\ pc' = "parsed"
    /\ output' = [text |-> output.text, value |-> parseValue(output.text)]
    /\ UNCHANGED <<scene, before, call, steps, recomputed, input>>

NextString == SerializeString \/ ParseString

SpecString == InitString /\ [][NextString]_vars

\* s wrapped in quotes, every backslash doubled, every quote preceded by a backslash
EscapedForm(s) ==
    <<Quote>>
    \o Flatten([i \in 1..Len(s) |->
                    IF s[i] = Backslash THEN <<Backslash, Backslash>>
                    ELSE IF s[i] = Quote THEN <<Backslash, Quote>>
                    ELSE <<s[i]>>])
    \o <<Quote>>

\* C9: for every string s of ordinary characters, quotes and backslashes,
\* serializeValue(s) is s in quotes with every backslash doubled and every quote
\* preceded by a backslash, and parseValue(serializeValue(s)) is s.
C9_StringEscapeFidelity ==
    /\ pc \in {"serialized", "parsed"} => output.text = EscapedForm(input)
    /\ pc = "parsed" => output.value = Str(input)

(***************************************************************************)
(* parseArray                                                              *)
(***************************************************************************)
MaxElems == 2

ElementPool ==
    { <<"1">>, <<"\"", "a", "\"">>, <<"\"", "a", ",", " ", "b", "\"">>, <<"\"", "a", "\\", "\"", "b", ",", " ", "c", "\"">>, <<"\"", "a", "\\", "\\", "\"">>,
      <<"V", "e", "c", "t", "o", "r", "2", "(", "1", ",", " ", "2", ")">>, <<"[", "3", ",", " ", "[", "4", ",", " ", "5", "]", "]">>, <<"{", "\"", "a", "\"", ":", " ", "1", ",", " ", "\"", "b", "\"", ":", " ", "[", "2", ",", " ", "3", "]", "}">>, <<"\"", "(", "[", "\"">> }

ArrayText(elems) == <<"[">> \o Join(elems, <<",", " ">>) \o <<"]">>

ArrayInputs ==
    {ArrayText(elems) : elems \in UNION {[1..n -> ElementPool] : n \in 1..MaxElems}}

InitArray ==
    /\ input \in ArrayInputs
    /\ pc = "start"
    /\ output = Idle
    /\ scene = Idle /\ before = Idle /\ call = NoCall /\ steps = 0 /\ recomputed = FALSE

ParseArray ==
    /\ pc = "start"
    /\ pc' = "parsed"
    /\ output' = parseArray(input)
    /\ UNCHANGED <<scene, before, call, steps, recomputed, input>>

NextArray == ParseArray

SpecArray == InitArray /\ [][NextArray]_vars

\* A quote is escaped when an odd number of backslashes stands right before it;
\* a string ends at its first unescaped quote.
InsideString(inner, i) ==
    Cardinality({j \in 1..i :
        inner[j] = Quote /\ RunBefore(inner, j, Backslash) % 2 = 0}) % 2 = 1

Nesting(inner, i) ==
    Cardinality({j \in 1..i : ~InsideString(inner, j) /\ inner[j] \in {"[", "{", "("}})
    - Cardinality({j \in 1..i : ~InsideString(inner, j) /\ inner[j] \in {"]", "}", ")"}})

TopLevelCommas(inner) ==
    {i \in 1..Len(inner) :
        inner[i] = "," /\ ~InsideString(inner, i) /\ Nesting(inner, i) = 0}

\* C10: parseArray yields exactly one element per top-level segment: a comma
\* separates iff it is outside every quoted string and every (), [], {} pair.
C10_OneElementPerTopLevelSegment ==
    pc = "parsed" =>
        LET inner == SliceInner(input, 1)
            segs == SplitAt(inner, TopLevelCommas(inner))
        IN  /\ Len(output.items) = Len(segs)
            /\ \A k \in 1..Len(segs) : output.items[k] = parseValue(segs[k])

(***************************************************************************)
(* parse and serialize on whole documents                                  *)
(***************************************************************************)
Text(lines) == Join(lines, <<Newline>>) \o <<Newline>>

HeaderLines ==
    { <<"[", "g", "d", "_", "s", "c", "e", "n", "e", " ", "f", "o", "r", "m", "a", "t", "=", "3", "]">>,
      <<"[", "g", "d", "_", "s", "c", "e", "n", "e", " ", "l", "o", "a", "d", "_", "s", "t", "e", "p", "s", "=", "3", " ", "f", "o", "r", "m", "a", "t", "=", "3", " ", "u", "i", "d", "=", "\"", "u", "i", "d", ":", "/", "/", "b", "\"", "]">>,
      <<"[", "g", "d", "_", "r", "e", "s", "o", "u", "r", "c", "e", " ", "t", "y", "p", "e", "=", "\"", "R", "e", "s", "o", "u", "r", "c", "e", "\"", " ", "f", "o", "r", "m", "a", "t", "=", "3", "]">> }

ExtResourceLine == <<"[", "e", "x", "t", "_", "r", "e", "s", "o", "u", "r", "c", "e", " ", "t", "y", "p", "e", "=", "\"", "S", "c", "r", "i", "p", "t", "\"", " ", "p", "a", "t", "h", "=", "\"", "r", "e", "s", ":", "/", "/", "p", ".", "g", "d", "\"", " ", "i", "d", "=", "\"", "1", "_", "s", "\"", "]">>

SubResourceBlock ==
    << <<"[", "s", "u", "b", "_", "r", "e", "s", "o", "u", "r", "c", "e", " ", "t", "y", "p", "e", "=", "\"", "R", "e", "c", "t", "a", "n", "g", "l", "e", "S", "h", "a", "p", "e", "2", "D", "\"", " ", "i", "d", "=", "\"", "R", "_", "1", "\"", "]">>, <<"s", "i", "z", "e", " ", "=", " ", "V", "e", "c", "t", "o", "r", "2", "(", "3", "2", ",", " ", "4", "8", ")">>, <<>> >>

NodeHeaderLines ==
    { <<"[", "n", "o", "d", "e", " ", "n", "a", "m", "e", "=", "\"", "P", "l", "a", "y", "e", "r", "\"", " ", "t", "y", "p", "e", "=", "\"", "N", "o", "d", "e", "2", "D", "\"", "]">>,
      <<"[", "n", "o", "d", "e", " ", "n", "a", "m", "e", "=", "\"", "C", "h", "i", "l", "d", "\"", " ", "t", "y", "p", "e", "=", "\"", "L", "a", "b", "e", "l", "\"", " ", "p", "a", "r", "e", "n", "t", "=", "\"", ".", "\"", " ", "g", "r", "o", "u", "p", "s", "=", "[", "\"", "a", "\"", ",", " ", "\"", "b", "\"", "]", "]">>,
      <<"[", "n", "o", "d", "e", " ", "n", "a", "m", "e", "=", "\"", "I", "n", "s", "t", "\"", " ", "p", "a", "r", "e", "n", "t", "=", "\"", "P", "l", "a", "y", "e", "r", "\"", " ", "i", "n", "s", "t", "a", "n", "c", "e", "=", "E", "x", "t", "R", "e", "s", "o", "u", "r", "c", "e", "(", "\"", "1", "_", "s", "\"", ")", " ", "i", "n", "d", "e", "x", "=", "0", "]">> }

PropertyPool ==
    { <<"p", "o", "s", "i", "t", "i", "o", "n", " ", "=", " ", "V", "e", "c", "t", "o", "r", "2", "(", "-", "1", "0", "0", ",", " ", "2", "0", "0", ".", "5", ")">>,
      <<"o", "f", "f", "s", "e", "t", " ", "=", " ", "-", "5", "0">>,
      <<"t", "e", "x", "t", " ", "=", " ", "\"", "H", "e", "l", "l", "o", " ", "\\", "\"", "W", "o", "r", "l", "d", "\\", "\"", "\"">>,
      <<"v", "a", "l", "u", "e", "s", " ", "=", " ", "[", "V", "e", "c", "t", "o", "r", "2", "(", "1", ",", "2", ")", ",", " ", "[", "3", ",", "4", "]", ",", " ", "{", "\"", "a", "\"", ":", " ", "1", "}", "]">>,
      <<"c", "o", "l", "o", "r", " ", "=", " ", "C", "o", "l", "o", "r", "(", "1", ",", " ", "1", ",", " ", "1", ")">>,
      <<"t", "r", "a", "n", "s", "f", "o", "r", "m", " ", "=", " ", "T", "r", "a", "n", "s", "f", "o", "r", "m", "2", "D", "(", "1", ",", " ", "0", ",", " ", "0", ",", " ", "1", ",", " ", "0", ",", " ", "0", ")">>,
      <<"s", "c", "r", "i", "p", "t", " ", "=", " ", "E", "x", "t", "R", "e", "s", "o", "u", "r", "c", "e", "(", "\"", "1", "_", "s", "\"", ")">>,
      <<"p", "a", "t", "h", " ", "=", " ", "N", "o", "d", "e", "P", "a", "t", "h", "(", "\"", "A", "/", "B", "\"", ")">>,
      <<"v", "i", "s", "i", "b", "l", "e", " ", "=", " ", "f", "a", "l", "s", "e">>,
      <<"l", "a", "b", "e", "l", " ", "=", " ", "\"", "C", "o", "l", "o", "r", "(", "r", "e", "d", ")", "\"">> }

ConnectionLine == <<"[", "c", "o", "n", "n", "e", "c", "t", "i", "o", "n", " ", "s", "i", "g", "n", "a", "l", "=", "\"", "p", "r", "e", "s", "s", "e", "d", "\"", " ", "f", "r", "o", "m", "=", "\"", "C", "h", "i", "l", "d", "\"", " ", "t", "o", "=", "\"", ".", "\"", " ", "m", "e", "t", "h", "o", "d", "=", "\"", "_", "o", "n", "_", "p", "r", "e", "s", "s", "e", "d", "\"", " ", "f", "l", "a", "g", "s", "=", "3", "]">>

\* the lines before and after the node block of a document
Frames ==
    { [pre |-> <<h, <<>>>>, post |-> <<>>] : h \in HeaderLines }
    \cup { [pre |-> <<h, <<>>, ExtResourceLine, <<>>>> \o SubResourceBlock,
            post |-> <<<<>>, ConnectionLine>>] : h \in HeaderLines }

WellFormedDocs ==
    { Text(f.pre \o <<nh, p>> \o f.post) :
        f \in Frames, nh \in NodeHeaderLines, p \in PropertyPool }
    \cup { Text(f.pre \o f.post) : f \in Frames }

\* texts with no header line, and texts of unrecognized lines only
OddTexts ==
    { <<>>, <<Newline>>, <<"h", "e", "l", "l", "o">>,
      Text(<<<<";", " ", "a", " ", "c", "o", "m", "m", "e", "n", "t">>, <<"[", "u", "n", "k", "n", "o", "w", "n", "_", "t", "a", "g", " ", "i", "d", "=", "1", "]">>, <<"k", "e", "y", " ", "=", " ", "1">>>>),
      Text(<<<<"[", "n", "o", "d", "e", " ", "n", "a", "m", "e", "=", "\"", "A", "\"", " ", "t", "y", "p", "e", "=", "\"", "T", "\"", "]">>, <<"x", " ", "=", " ", "1">>, <<"n", "o", " ", "e", "q", "u", "a", "l", "s", " ", "s", "i", "g", "n">>>>),
      Text(<<<<"[", "n", "o", "d", "e">>, <<"[", "c", "o", "n", "n", "e", "c", "t", "i", "o", "n", "]">>, <<"[", "e", "x", "t", "_", "r", "e", "s", "o", "u", "r", "c", "e", "]">>, <<"[", "s", "u", "b", "_", "r", "e", "s", "o", "u", "r", "c", "e">>>>),
      Text(<<<<" ", " ", "[", "g", "d", "_", "s", "c", "e", "n", "e", " ", "f", "o", "r", "m", "a", "t", "=", "3", "]", " ", " ">>>>),
      <<"[", "g", "d", "_", "s", "c", "e", "n", "e", " ", "f", "o", "r", "m", "a", "t", "=", "3", "]">>,
      Text(<<<<"[", "g", "d", "_", "s", "c", "e", "n", "e", " ", "l", "o", "a", "d", "_", "s", "t", "e", "p", "s", "=", "x", " ", "f", "o", "r", "m", "a", "t", "=", "y", "]">>, <<"[", "n", "o", "d", "e", " ", "n", "a", "m", "e", "=", "\"", "A", "\"", " ", "i", "n", "d", "e", "x", "=", "z", " ", "g", "r", "o", "u", "p", "s", "=", "o", "o", "p", "s", "]">>>>) }

MaxTailLen == 3

\* a section tag followed by an arbitrary short tail
BrokenTexts ==
    { tag \o tail :
        tag \in {<<"[", "n", "o", "d", "e", " ">>, <<"[", "g", "d", "_", "s", "c", "e", "n", "e", " ">>, <<"[", "c", "o", "n", "n", "e", "c", "t", "i", "o", "n", " ">>},
        tail \in SeqsUpTo({"a", "=", Quote, Newline}, MaxTailLen) }

DocumentInputs == WellFormedDocs \cup OddTexts \cup BrokenTexts

InitParse ==
    /\ input \in DocumentInputs
    /\ pc = "start"
    /\ output = Idle
    /\ scene = Idle /\ before = Idle /\ call = NoCall /\ steps = 0 /\ recomputed = FALSE

Parse ==
    /\ pc = "start"
    /\ pc' = "parsed"
    /\ output' = [parsed |-> parse(input)]
    /\ UNCHANGED <<scene, before, call, steps, recomputed, input>>

Serialize ==
    /\ pc = "parsed"
    /\ pc' = "serialized"
    /\ output' = [parsed |-> output.parsed, serialized |-> serialize(output.parsed)]
    /\ UNCHANGED <<scene, before, call, steps, recomputed, input>>

Reparse ==
    /\ pc = "serialized"
    /\ pc' = "reparsed"
    /\ output' = [parsed |-> output.parsed, serialized |-> output.serialized,
                  reparsed |-> parse(output.serialized)]
    /\ UNCHANGED <<scene, before, call, steps, recomputed, input>>

NextParse == Parse \/ Serialize \/ Reparse

SpecParse == InitParse /\ [][NextParse]_vars

\* C1: for every well-formed document text D,
\* parse(serialize(parse(D))) is structurally equal to parse(D).
C1_RoundTrip ==
    (pc = "reparsed" /\ input \in WellFormedDocs) => output.reparsed = output.parsed

LinesOf(text) == SplitOn(text, Newline)

IsHeaderLine(line) ==
    \/ StartsWith(Trim(line), <<"[", "g", "d", "_", "s", "c", "e", "n", "e">>)
    \/ StartsWith(Trim(line), <<"[", "g", "d", "_", "r", "e", "s", "o", "u", "r", "c", "e">>)

IsRecognizedLine(line) ==
    \/ IsHeaderLine(line)
    \/ \E tag \in {<<"[", "e", "x", "t", "_", "r", "e", "s", "o", "u", "r", "c", "e">>, <<"[", "s", "u", "b", "_", "r", "e", "s", "o", "u", "r", "c", "e">>, <<"[", "n", "o", "d", "e">>, <<"[", "c", "o", "n", "n", "e", "c", "t", "i", "o", "n">>} :
          StartsWith(Trim(line), tag)

HasNoHeaderLine(text) == \A k \in 1..Len(LinesOf(text)) : ~IsHeaderLine(LinesOf(text)[k])

OnlyUnrecognizedLines(text) ==
    \A k \in 1..Len(LinesOf(text)) : ~IsRecognizedLine(LinesOf(text)[k])

NoEntries(doc) ==
    /\ doc.externalResources = <<>>
    /\ doc.subResources = <<>>
    /\ doc.nodes = <<>>
    /\ doc.connections = <<>>

IsDefaultHeader(header) ==
    /\ header.type = <<"g", "d", "_", "s", "c", "e", "n", "e">>
    /\ header.format = Int_(3)
    /\ header.loadSteps = Undef
    /\ header.uid = Undef

\* C3: parse returns a Document (a header and the four lists) for every input
\* text; with no header line the header is {type: gd_scene, format: 3}; text
\* of unrecognized lines only, and the text holding only the line
\* [gd_scene format=3], yield zero nodes, external resources, sub-resources
\* and connections.
C3_ParseIsTotal ==
    pc \in {"parsed", "serialized", "reparsed"} =>
        LET doc == output.parsed
        IN  /\ DOMAIN doc = {"header", "externalResources", "subResources", "nodes", "connections"}
            /\ DOMAIN doc.header = {"type", "loadSteps", "format", "uid"}
            /\ \A list \in {doc.externalResources, doc.subResources, doc.nodes, doc.connections} :
                  DOMAIN list = 1..Len(list)
            /\ HasNoHeaderLine(input) => IsDefaultHeader(doc.header)
            /\ OnlyUnrecognizedLines(input) => NoEntries(doc)
            /\ input \in {<<"[", "g", "d", "_", "s", "c", "e", "n", "e", " ", "f", "o", "r", "m", "a", "t", "=", "3", "]">>, Text(<<<<"[", "g", "d", "_", "s", "c", "e", "n", "e", " ", "f", "o", "r", "m", "a", "t", "=", "3", "]">>>>)} =>
                  IsDefaultHeader(doc.header) /\ NoEntries(doc)

\* a text without a header line that still holds a node has been parsed
C3_Witness ==
    /\ pc = "parsed"
    /\ HasNoHeaderLine(input)
    /\ Len(output.parsed.nodes) = 1

(***************************************************************************)
(* serialize on documents built from typed values                          *)
(***************************************************************************)
Vector2(x, y) == Obj(<<Entry(kType, Str(<<"V", "e", "c", "t", "o", "r", "2">>)), Entry(kx, x), Entry(ky, y)>>)

Vector3(x, y, z) ==
    Obj(<<Entry(kType, Str(<<"V", "e", "c", "t", "o", "r", "3">>)), Entry(kx, x), Entry(ky, y), Entry(kz, z)>>)

Color(r, g, b, a) ==
    Obj(<<Entry(kType, Str(<<"C", "o", "l", "o", "r">>)), Entry(kr, r), Entry(kg, g), Entry(kb, b), Entry(ka, a)>>)

ExtResource(id) == Obj(<<Entry(kType, Str(<<"E", "x", "t", "R", "e", "s", "o", "u", "r", "c", "e">>)), Entry(kid, Str(id))>>)

SubResource(id) == Obj(<<Entry(kType, Str(<<"S", "u", "b", "R", "e", "s", "o", "u", "r", "c", "e">>)), Entry(kid, Str(id))>>)

NodePath(path) == Obj(<<Entry(kType, Str(<<"N", "o", "d", "e", "P", "a", "t", "h">>)), Entry(kpath, Str(path))>>)

ScalarPool ==
    { Null, Bool(TRUE), Bool(FALSE), Int_(42), Int_(-50), Num(2005, 1),
      Str(<<"a">>), Str(<<"s", "a", "y", " ", "\"", "h", "i", "\"">>), Str(<<"a", "\\">>), Str(<<"a", ":", "b">>), Str(<<"a", ",", " ", "b">>),
      Vector2(Int_(1), Num(-5, 1)), Vector3(Int_(0), Int_(1), Int_(2)),
      Color(Int_(1), Num(5, 1), Int_(0), Int_(1)),
      ExtResource(<<"1", "_", "s">>), SubResource(<<"R", "_", "1">>), NodePath(<<"A", "/", "B">>) }

ArrayPool == { Arr(items) : items \in SeqsUpTo(ScalarPool, MaxElems) }

DictionaryPool ==
    { Obj(<<Entry(key, val)>>) : key \in {<<"k">>, <<"a", ":", "b">>}, val \in ScalarPool }

TypedValues == ScalarPool \cup ArrayPool \cup DictionaryPool

SubRes(properties) == [type |-> <<"S", "h", "a", "p", "e">>, id |-> <<"R", "_", "1">>, properties |-> properties]

TypedDocs ==
    { [header |-> Header(Undef), externalResources |-> <<>>, subResources |-> <<>>,
       nodes |-> <<Node(sA, Str(sT), Undef, Obj(<<Entry(kp, v)>>))>>,
       connections |-> <<>>] : v \in TypedValues }
    \cup
    { [header |-> Header(Int_(3)), externalResources |-> <<ExtRes>>,
       subResources |-> <<SubRes(Obj(<<Entry(kp, v)>>))>>,
       nodes |-> <<Node(sR, Str(sT), Undef, EmptyObj), Node(sA, Undef, Str(Dot), Obj(<<Entry(kq, v)>>))>>,
       connections |-> <<Connection(sT, sA, Dot, sT)>>] : v \in ScalarPool }

InitSerialize ==
    /\ input \in TypedDocs
    /\ pc = "start"
    /\ output = Idle
    /\ scene = Idle /\ before = Idle /\ call = NoCall /\ steps = 0 /\ recomputed = FALSE

SerializeDoc ==
    /\ pc = "start"
    /\ pc' = "serialized"
    /\ output' = [text |-> serialize(input)]
    /\ UNCHANGED <<scene, before, call, steps, recomputed, input>>

ParseText ==
    /\ pc = "serialized"
    /\ pc' = "parsed"
    /\ output' = [text |-> output.text, doc |-> parse(output.text)]
    /\ UNCHANGED <<scene, before, call, steps, recomputed, input>>

Reserialize ==
    /\ pc = "parsed"
    /\ pc' = "reserialized"
    /\ output' = [text |-> output.text, doc |-> output.doc, again |-> serialize(output.doc)]
    /\ UNCHANGED <<scene, before, call, steps, recomputed, input>>

NextSerialize == SerializeDoc \/ ParseText \/ Reserialize

SpecSerialize == InitSerialize /\ [][NextSerialize]_vars

\* C2: for any document built purely from typed values,
\* serialize(parse(serialize(doc))) is textually equal to serialize(doc).
C2_SerializeIdempotent ==
    pc = "reserialized" => output.again = output.text

(***************************************************************************)
(* Color values in properties                                              *)
(***************************************************************************)
NumberPool ==
    { [text |-> <<"1">>, value |-> Int_(1)], [text |-> <<"0">>, value |-> Int_(0)],
      [text |-> <<"0", ".", "5">>, value |-> Num(5, 1)] }

ColorArgs == UNION { [1..n -> NumberPool] : n \in {3, 4} }

ColorContexts == {"top", "array", "dictionary", "nested"}

ColorLiteral(args, sep) ==
    <<"C", "o", "l", "o", "r", "(">> \o Join([i \in 1..Len(args) |-> args[i].text], sep) \o <<")">>

\* the value text that holds the Color literal
ColorValueText(in) ==
    LET lit == ColorLiteral(in.args, in.sep)
    IN  CASE in.context = "top" -> lit
          [] in.context = "array" -> <<"[", "1", ",", " ">> \o lit \o <<",", " ", "\"", "a", "\"", "]">>
          [] in.context = "dictionary" -> <<"{", "\"", "t", "i", "n", "t", "\"", ":", " ">> \o lit \o <<"}">>
          [] OTHER -> <<"[", "{", "\"", "t", "i", "n", "t", "\"", ":", " ", "[">> \o lit \o <<"]", "}", ",", " ", "V", "e", "c", "t", "o", "r", "2", "(", "1", ",", " ", "2", ")", "]">>

ColorDocument(in) ==
    Text(<<<<"[", "g", "d", "_", "s", "c", "e", "n", "e", " ", "f", "o", "r", "m", "a", "t", "=", "3", "]">>, <<>>, <<"[", "n", "o", "d", "e", " ", "n", "a", "m", "e", "=", "\"", "A", "\"", " ", "t", "y", "p", "e", "=", "\"", "S", "p", "r", "i", "t", "e", "2", "D", "\"", "]">>,
           <<"m", "o", "d", "u", "l", "a", "t", "e", " ", "=", " ">> \o ColorValueText(in)>>)

ColorInputs ==
    { [args |-> a, sep |-> s, context |-> c] :
        a \in ColorArgs, s \in {<<",">>, <<",", " ">>}, c \in ColorContexts }

InitColor ==
    /\ input \in ColorInputs
    /\ pc = "start"
    /\ output = Idle
    /\ scene = Idle /\ before = Idle /\ call = NoCall /\ steps = 0 /\ recomputed = FALSE

ParseColorDocument ==
    /\ pc = "start"
    /\ pc' = "parsed"
    /\ output' = [parsed |-> parse(ColorDocument(input))]
    /\ UNCHANGED <<scene, before, call, steps, recomputed, input>>

NextColor == ParseColorDocument

SpecColor == InitColor /\ [][NextColor]_vars

IsColorRecord(v) == v.k = "obj" /\ ObjGet(v, kType) = Str(<<"C", "o", "l", "o", "r">>)

RECURSIVE ColorsIn(_)
\* the Color records found anywhere in a value
ColorsIn(v) ==
    IF v.k = "arr" THEN UNION { ColorsIn(v.items[i]) : i \in 1..Len(v.items) }
    ELSE IF v.k = "obj"
    THEN IF IsColorRecord(v) THEN {v}
         ELSE UNION { ColorsIn(v.entries[i].val) : i \in 1..Len(v.entries) }
    ELSE {}

\* C11: after parse, every Color record found anywhere in a property value
\* (top level or nested in arrays and dictionaries) has an alpha field, equal
\* to the fourth argument when four are given and to 1 when three are given.
C11_ColorAlphaPresent ==
    pc = "parsed" =>
        LET colors == ColorsIn(ObjGet(output.parsed.nodes[1].properties, <<"m", "o", "d", "u", "l", "a", "t", "e">>))
            alpha == IF Len(input.args) = 4 THEN input.args[4].value ELSE Int_(1)
        IN  /\ Cardinality(colors) = 1
            /\ \A c \in colors :
                  /\ HasKey(c, ka)
                  /\ ObjGet(c, ka) = alpha
                  /\ ObjGet(c, kr) = input.args[1].value
                  /\ ObjGet(c, kg) = input.args[2].value
                  /\ ObjGet(c, kb) = input.args[3].value

\* a three-argument Color nested in a dictionary inside an array has been parsed
C11_Witness ==
    /\ pc = "parsed"
    /\ Len(input.args) = 3
    /\ input.context = "nested"
    /\ ColorsIn(ObjGet(output.parsed.nodes[1].properties, <<"m", "o", "d", "u", "l", "a", "t", "e">>)) # {}

(***************************************************************************)
(* numeric literals                                                        *)
(***************************************************************************)
MaxDigits == 3

Signs == {<<>>, <<"-">>}

DigitTexts == UNION { [1..n -> {"0", "1", "9"}] : n \in 1..MaxDigits }

\* number texts as they appear as vector components, with the number written
ComponentPool ==
    { [text |-> <<"-", "1", "0", "0">>, value |-> Int_(-100)], [text |-> <<"0">>, value |-> Int_(0)],
      [text |-> <<"2", "0", "0", ".", "5">>, value |-> Num(2005, 1)], [text |-> <<"-", "0", ".", "2", "5">>, value |-> Num(-25, 2)] }

QuotedContents ==
    { <<"t", "r", "u", "e">>, <<"f", "a", "l", "s", "e">>, <<"n", "u", "l", "l">>, <<"-", "5">>, <<"1", ".", "5">> } \cup DigitTexts

NoNumber == [kind |-> "none", sign |-> <<>>, digits |-> <<>>, comps |-> <<>>, sep |-> <<>>]

NumberInputs ==
    { [NoNumber EXCEPT !.kind = "integer", !.sign = s, !.digits = d] :
        s \in Signs, d \in DigitTexts }
    \cup { [NoNumber EXCEPT !.kind = "quoted", !.digits = d] : d \in QuotedContents }
    \cup { [NoNumber EXCEPT !.kind = "vector", !.comps = c, !.sep = s] :
        c \in UNION { [1..n -> ComponentPool] : n \in {2, 3} }, s \in {<<",">>, <<",", " ">>} }

NumberText(in) ==
    CASE in.kind = "integer" -> in.sign \o in.digits
      [] in.kind = "quoted" -> <<Quote>> \o in.digits \o <<Quote>>
      [] OTHER -> (IF Len(in.comps) = 2 THEN <<"V", "e", "c", "t", "o", "r", "2", "(">> ELSE <<"V", "e", "c", "t", "o", "r", "3", "(">>)
                  \o Join([i \in 1..Len(in.comps) |-> in.comps[i].text], in.sep) \o <<")">>

InitNumber ==
    /\ input \in NumberInputs
    /\ pc = "start"
    /\ output = Idle
    /\ scene = Idle /\ before = Idle /\ call = NoCall /\ steps = 0 /\ recomputed = FALSE

ParseNumberText ==
    /\ pc = "start"
    /\ pc' = "parsed"
    /\ output' = [value |-> parseValue(NumberText(input))]
    /\ UNCHANGED <<scene, before, call, steps, recomputed, input>>

NextNumber == ParseNumberText

SpecNumber == InitNumber /\ [][NextNumber]_vars

RECURSIVE Decimal(_)
\* the natural number written by a digit text
Decimal(digits) ==
    IF digits = <<>> THEN 0
    ELSE 10 * Decimal(SubSeq(digits, 1, Len(digits) - 1))
         + (CHOOSE d \in 0..9 : Digits[d + 1] = digits[Len(digits)])

\* C12: parseValue returns the integer n, never a string, for an optional
\* minus sign followed by digits; the components of a parsed Vector2/Vector3
\* are the numbers written, negative ones included; a quoted text is a string
\* even when its content is digits, true, false or null.
C12_NumericLiteralFidelity ==
    pc = "parsed" =>
        CASE input.kind = "integer" ->
                output.value = Int_(IF input.sign = <<>> THEN Decimal(input.digits)
                                    ELSE 0 - Decimal(input.digits))
          [] input.kind = "quoted" -> output.value = Str(input.digits)
          [] OTHER ->
                /\ ObjGet(output.value, kx) = input.comps[1].value
                /\ ObjGet(output.value, ky) = input.comps[2].value
                /\ Len(input.comps) = 3 => ObjGet(output.value, kz) = input.comps[3].value
                /\ ObjGet(output.value, kType) =
                      Str(IF Len(input.comps) = 2 THEN <<"V", "e", "c", "t", "o", "r", "2">> ELSE <<"V", "e", "c", "t", "o", "r", "3">>)

\* a negative integer text has been parsed to a number
C12_Witness ==
    /\ pc = "parsed"
    /\ input.kind = "integer"
    /\ input.sign # <<>>
    /\ output.value.k = "num"
    /\ output.value.m < 0

(***************************************************************************)
(* opaque constructor literals                                             *)
(***************************************************************************)
OpaqueNames ==
    { <<"R", "e", "c", "t", "2">>, <<"T", "r", "a", "n", "s", "f", "o", "r", "m", "2", "D">>, <<"T", "r", "a", "n", "s", "f", "o", "r", "m", "3", "D">>, <<"B", "a", "s", "i", "s">>, <<"Q", "u", "a", "t", "e", "r", "n", "i", "o", "n">>,
      <<"A", "A", "B", "B">>, <<"P", "l", "a", "n", "e">> }

OpaqueArgs == { <<"0", ",", " ", "0", ",", " ", "3", "2", ",", " ", "3", "2">>, <<"1", ",", "0", ",", "0", ",", "1", ",", "0", ",", "0">>, <<"-", "1", ".", "5", ",", " ", "2">> }

OpaqueContexts == {"top", "padded", "array", "dictionary"}

OpaqueInputs ==
    { [name |-> n, args |-> a, context |-> c] :
        n \in OpaqueNames, a \in OpaqueArgs, c \in OpaqueContexts }

OpaqueLiteral(in) == in.name \o <<"(">> \o in.args \o <<")">>

OpaqueText(in) ==
    CASE in.context = "top" -> OpaqueLiteral(in)
      [] in.context = "padded" -> <<" ", " ">> \o OpaqueLiteral(in) \o <<" ">>
      [] in.context = "array" -> <<"[", "1", ",", " ">> \o OpaqueLiteral(in) \o <<"]">>
      [] OTHER -> <<"{", "\"", "r", "e", "g", "i", "o", "n", "\"", ":", " ">> \o OpaqueLiteral(in) \o <<"}">>

InitOpaque ==
    /\ input \in OpaqueInputs
    /\ pc = "start"
    /\ output = Idle
    /\ scene = Idle /\ before = Idle /\ call = NoCall /\ steps = 0 /\ recomputed = FALSE

ParseOpaque ==
    /\ pc = "start"
    /\ pc' = "parsed"
    /\ output' = [parsed |-> parseValue(OpaqueText(input))]
    /\ UNCHANGED <<scene, before, call, steps, recomputed, input>>

SerializeOpaque ==
    /\ pc = "parsed"
    /\ pc' = "serialized"
    /\ output' = [parsed |-> output.parsed, text |-> serializeValue(output.parsed)]
    /\ UNCHANGED <<scene, before, call, steps, recomputed, input>>

ReparseOpaque ==
    /\ pc = "serialized"
    /\ pc' = "reparsed"
    /\ output' = [parsed |-> output.parsed, text |-> output.text,
                  reparsed |-> parseValue(output.text)]
    /\ UNCHANGED <<scene, before, call, steps, recomputed, input>>

NextOpaque == ParseOpaque \/ SerializeOpaque \/ ReparseOpaque

SpecOpaque == InitOpaque /\ [][NextOpaque]_vars

\* the value expected where the literal stands
OpaqueExpected(in) ==
    CASE in.context \in {"top", "padded"} -> Str(OpaqueLiteral(in))
      [] in.context = "array" -> Arr(<<Int_(1), Str(OpaqueLiteral(in))>>)
      [] OTHER -> Obj(<<Entry(<<"r", "e", "g", "i", "o", "n">>, Str(OpaqueLiteral(in)))>>)

\* the canonical text of the value, the literal standing in it without quotes
OpaqueCanonical(in) ==
    IF in.context = "padded" THEN OpaqueLiteral(in) ELSE OpaqueText(in)

\* C13: a value written as Rect2(...), Transform2D(...), Transform3D(...),
\* Basis(...), Quaternion(...), AABB(...) or Plane(...) parses to the raw string
\* of its trimmed text, serializeValue emits it verbatim without quotes, and
\* parsing again gives the same raw string, also inside an array or as a
\* dictionary value.
C13_OpaquePassThrough ==
    /\ pc \in {"parsed", "serialized", "reparsed"} => output.parsed = OpaqueExpected(input)
    /\ pc \in {"serialized", "reparsed"} => output.text = OpaqueCanonical(input)
    /\ pc = "reparsed" => output.reparsed = OpaqueExpected(input)

\* an opaque literal held in a dictionary has gone through parse, serialize, parse
C13_Witness ==
    /\ pc = "reparsed"
    /\ input.context = "dictionary"
    /\ input.name = <<"T", "r", "a", "n", "s", "f", "o", "r", "m", "2", "D">>

(***************************************************************************)
(* addNode                                                                 *)
(***************************************************************************)
\* C14: addNode appends exactly one node record at the end of scene.nodes, with
\* properties {} when the argument has none, and leaves every existing node,
\* every connection, externalResources and subResources unchanged.
C14_AddNodeAppendsOne ==
    call.name = "addNode" =>
        /\ Len(scene.nodes) = Len(before.nodes) + 1
        /\ SubSeq(scene.nodes, 1, Len(before.nodes)) = before.nodes
        /\ scene.nodes[Len(scene.nodes)] =
              [call.node EXCEPT !.properties =
                  IF call.node.properties = Undef THEN EmptyObj ELSE call.node.properties]
        /\ scene.connections = before.connections
        /\ scene.externalResources = before.externalResources
        /\ scene.subResources = before.subResources

\* a node without a property map has been added to a scene that has nodes and connections
C14_Witness ==
    /\ call.name = "addNode"
    /\ call.node.properties = Undef
    /\ Len(before.nodes) > 1
    /\ Len(before.connections) > 0

(***************************************************************************)
(* parent paths and names under the mutation calls                         *)
(***************************************************************************)
\* the parent path of a node names another node of the document
ParentResolves(node, nodes) ==
    (node.parent # Undef /\ node.parent # Str(Dot)) =>
        \E j \in 1..Len(nodes) : nodes[j] # node /\ ComputedPath(nodes[j]) = node.parent.s

ParentPathsResolve(s) == \A i \in 1..Len(s.nodes) : ParentResolves(s.nodes[i], s.nodes)

\* C15: in a Document where every node's parent, if present and not ".",
\* equals the computed path of another node, this still holds after an
\* addNode (of a node whose parent names a node), removeNode or modifyNode call.
C15_ParentPathsPreserved ==
    [][(/\ ParentPathsResolve(scene)
        /\ call'.name = "addNode" => ParentResolves(call'.node, scene.nodes))
       => ParentPathsResolve(scene')]_vars

\* no two nodes of the document have the same parent and the same name
NamesUniqueInScope(s) ==
    \A i, j \in 1..Len(s.nodes) :
        (i # j /\ s.nodes[i].parent = s.nodes[j].parent) => s.nodes[i].name # s.nodes[j].name

\* at most one node has any given computed path
PathsUnique(s) ==
    \A i, j \in 1..Len(s.nodes) :
        i # j => ComputedPath(s.nodes[i]) # ComputedPath(s.nodes[j])

\* C16: in a Document whose node names are unique within each parent scope,
\* names remain unique within each parent scope after an addNode, removeNode
\* or modifyNode call, so that at most one node has any given computed path.
C16_NamesStayUnique ==
    [][(NamesUniqueInScope(scene) /\ PathsUnique(scene))
       => (NamesUniqueInScope(scene') /\ PathsUnique(scene'))]_vars

(***************************************************************************)
(* load_steps in the serialized header                                     *)
(***************************************************************************)
MaxResources == 2

MaxLoadSteps == 4

HeaderDocs ==
    { [header |-> [Header(ls) EXCEPT !.uid = uid],
       externalResources |-> [i \in 1..ne |-> ExtRes],
       subResources |-> [i \in 1..ns |-> SubRes(EmptyObj)],
       nodes |-> <<Node(sR, Str(sT), Undef, EmptyObj)>>,
       connections |-> <<>>] :
        ls \in {Undef} \cup {Int_(n) : n \in 0..MaxLoadSteps},
        uid \in {Undef, Str(<<"u", "i", "d", ":", "/", "/", "b">>)},
        ne \in 0..MaxResources, ns \in 0..MaxResources }

InitHeader ==
    /\ input \in HeaderDocs
    /\ pc = "start"
    /\ output = Idle
    /\ scene = Idle /\ before = Idle /\ call = NoCall /\ steps = 0 /\ recomputed = FALSE

SerializeHeaderDoc ==
    /\ pc = "start"
    /\ pc' = "serialized"
    /\ output' = [text |-> serialize(input)]
    /\ UNCHANGED <<scene, before, call, steps, recomputed, input>>

NextHeader == SerializeHeaderDoc

SpecHeader == InitHeader /\ [][NextHeader]_vars

\* the header line that carries the recomputed load_steps
RecomputedHeaderLine(doc) ==
    <<"[", "g", "d", "_", "s", "c", "e", "n", "e", " ", "l", "o", "a", "d", "_", "s", "t", "e", "p", "s", "=">>
    \o <<Digits[Len(doc.externalResources) + Len(doc.subResources) + 2]>>
    \o <<" ", "f", "o", "r", "m", "a", "t", "=", "3">>
    \o (IF doc.header.uid = Undef THEN <<>>
        ELSE <<" ", "u", "i", "d", "=", "\"">> \o doc.header.uid.s \o <<Quote>>)
    \o <<"]">>

\* C17: the load_steps value in the emitted header line equals
\* externalResources.length + subResources.length + 1 for every Document,
\* whatever value header.loadSteps holds.
C17_SerializeRecomputesLoadSteps ==
    pc = "serialized" => LinesOf(output.text)[1] = RecomputedHeaderLine(input)

(***************************************************************************)
(* the editor bridge's output and error buffers (message_handler.gd)       *)
(*                                                                         *)
(* scene holds the handler's fields output_buffer and error_buffer; a      *)
(* logged line or error is written as its arrival number since the last    *)
(* clear of its buffer, and before counts those arrivals.                  *)
(***************************************************************************)
MAX_OUTPUT_LINES == 500

MAX_ERROR_COUNT == 100

MaxOutputLogged == 503

MaxErrorsLogged == 102

\* a limit loop that already drops at the limit
KeepNewest_AtLimit(buffer, limit) ==
    IF Len(buffer) >= limit THEN SubSeq(buffer, Len(buffer) - limit + 2, Len(buffer))
    ELSE buffer

\* while buffer.size() > limit: buffer.pop_front()
KeepNewest(buffer, limit) ==
    IF Len(buffer) > limit THEN SubSeq(buffer, Len(buffer) - limit + 1, Len(buffer))
    ELSE buffer

InitBuffer ==
    /\ scene = [output_buffer |-> <<>>, error_buffer |-> <<>>]
    /\ before = [lines |-> 0, errors |-> 0]
    /\ call = NoCall /\ steps = 0 /\ recomputed = FALSE
    /\ pc = "idle" /\ input = Idle /\ output = Idle

log_output ==
    /\ before.lines < MaxOutputLogged
    /\ scene' = [scene EXCEPT !.output_buffer =
                    KeepNewest(Append(@, before.lines + 1), MAX_OUTPUT_LINES)]
    /\ before' = [before EXCEPT !.lines = @ + 1]
    /\ UNCHANGED <<call, steps, recomputed, pc, input, output>>

log_error ==
    /\ before.errors < MaxErrorsLogged
    /\ scene' = [scene EXCEPT !.error_buffer =
                    KeepNewest(Append(@, before.errors + 1), MAX_ERROR_COUNT)]
    /\ before' = [before EXCEPT !.errors = @ + 1]
    /\ UNCHANGED <<call, steps, recomputed, pc, input, output>>

clear_output ==
    /\ scene' = [scene EXCEPT !.output_buffer = <<>>]
    /\ before' = [before EXCEPT !.lines = 0]
    /\ UNCHANGED <<call, steps, recomputed, pc, input, output>>

clear_errors ==
    /\ scene' = [scene EXCEPT !.error_buffer = <<>>]
    /\ before' = [before EXCEPT !.errors = 0]
    /\ UNCHANGED <<call, steps, recomputed, pc, input, output>>

NextBuffer == log_output \/ log_error \/ clear_output \/ clear_errors

SpecBuffer == InitBuffer /\ [][NextBuffer]_vars

\* the most recent min(logged, limit) arrivals, in arrival order
MostRecent(logged, limit) ==
    IF logged > limit THEN [i \in 1..limit |-> logged - limit + i]
    ELSE [i \in 1..logged |-> i]

\* C18: after any sequence of log_output and clear_output calls output_buffer
\* holds at most 500 lines, and exactly the 500 most recent ones in arrival
\* order once more than 500 were logged since the last clear; likewise
\* error_buffer holds at most the 100 most recent errors.
C18_BuffersBounded ==
    /\ Len(scene.output_buffer) <= 500
    /\ scene.output_buffer = MostRecent(before.lines, 500)
    /\ Len(scene.error_buffer) <= 100
    /\ scene.error_buffer = MostRecent(before.errors, 100)

\* more than 500 lines and more than 100 errors have been logged since the last clear
C18_Witness ==
    /\ before.lines > 500
    /\ Len(scene.output_buffer) = 500
    /\ before.errors > 100
    /\ Len(scene.error_buffer) = 100

(***************************************************************************)
(* parseDictionary                                                         *)
(***************************************************************************)
MaxPairs == 2

\* segments as written: a key text and a value text, or a text without colon
SegmentPool ==
    { [colon |-> TRUE, key |-> <<"\"", "a", "\"">>, value |-> <<"1">>],
      [colon |-> TRUE, key |-> <<"\"", "a", ":", "b", "\"">>, value |-> <<"2">>],
      [colon |-> TRUE, key |-> <<"\"", "k", "\"">>, value |-> <<"\"", "x", ":", "y", "\"">>],
      [colon |-> TRUE, key |-> <<"\"", "v", "\"">>, value |-> <<"V", "e", "c", "t", "o", "r", "2", "(", "1", ",", " ", "2", ")">>],
      [colon |-> TRUE, key |-> <<"n">>, value |-> <<"[", "1", ",", " ", "2", "]">>],
      [colon |-> TRUE, key |-> <<"\"", "c", "\"">>, value |-> <<"{", "\"", "d", "\"", ":", " ", "1", "}">>],
      [colon |-> TRUE, key |-> <<"\"", "e", "\"">>, value |-> <<"\"", "a", ",", " ", "b", "\"">>],
      [colon |-> FALSE, key |-> <<"\"", "j", "u", "n", "k", "\"">>, value |-> <<>>] }

SegmentLists ==
    { segs \in UNION { [1..n -> SegmentPool] : n \in 1..MaxPairs } :
        \A i, j \in 1..Len(segs) : i # j => segs[i] # segs[j] }

SegmentText(seg) == IF seg.colon THEN seg.key \o <<":", " ">> \o seg.value ELSE seg.key

DictionaryText(segs) ==
    <<"{">> \o Join([i \in 1..Len(segs) |-> SegmentText(segs[i])], <<",", " ">>) \o <<"}">>

InitDictionary ==
    /\ input \in SegmentLists
    /\ pc = "start"
    /\ output = Idle
    /\ scene = Idle /\ before = Idle /\ call = NoCall /\ steps = 0 /\ recomputed = FALSE

ParseDictionary ==
    /\ pc = "start"
    /\ pc' = "parsed"
    /\ output' = [value |-> parseDictionary(DictionaryText(input))]
    /\ UNCHANGED <<scene, before, call, steps, recomputed, input>>

NextDictionary == ParseDictionary

SpecDictionary == InitDictionary /\ [][NextDictionary]_vars

\* the segments that hold a colon, in order
WithColon(segs) ==
    LET idx == {i \in 1..Len(segs) : segs[i].colon}
    IN  [k \in 1..Cardinality(idx) |->
            segs[CHOOSE i \in idx : Cardinality({j \in idx : j <= i}) = k]]

\* C19: parseDictionary yields one entry for each top-level segment that
\* contains a colon, split at its first colon outside quoted strings: the key
\* is the stringified parsed text before it (a quoted key containing ':' stays
\* one key), the value the parsed text after it; segments without a colon are
\* dropped.
C19_OneEntryPerColonSegment ==
    pc = "parsed" =>
        LET kept == WithColon(input)
        IN  output.value =
                Obj([k \in 1..Len(kept) |->
                        Entry(JsString(parseValue(kept[k].key)), parseValue(kept[k].value))])

(***************************************************************************)
(* array attributes of a node header                                       *)
(***************************************************************************)
MaxGroups == 2

GroupNames == { <<"a">>, <<"e", "n", "e", "m", "i", "e", "s">>, <<"x", " ", "y">>, <<"a", "=", "b">>, <<"a", "]", "b">> }

GroupLists == UNION { [1..n -> GroupNames] : n \in 0..MaxGroups }

GroupsLiteral(names) ==
    <<"[">> \o Join([i \in 1..Len(names) |-> <<Quote>> \o names[i] \o <<Quote>>], <<",", " ">>) \o <<"]">>

NodeHeaderLine(in) ==
    IF in.last
    THEN <<"[", "n", "o", "d", "e", " ", "n", "a", "m", "e", "=", "\"", "N", "\"", " ", "t", "y", "p", "e", "=", "\"", "N", "o", "d", "e", "2", "D", "\"", " ", "p", "a", "r", "e", "n", "t", "=", "\"", ".", "\"", " ", "g", "r", "o", "u", "p", "s", "=">> \o GroupsLiteral(in.names) \o <<"]">>
    ELSE <<"[", "n", "o", "d", "e", " ", "n", "a", "m", "e", "=", "\"", "N", "\"", " ", "g", "r", "o", "u", "p", "s", "=">> \o GroupsLiteral(in.names) \o <<" ", "i", "n", "d", "e", "x", "=", "1", "]">>

InitAttributes ==
    /\ input \in { [names |-> ns, last |-> l] : ns \in GroupLists, l \in BOOLEAN }
    /\ pc = "start"
    /\ output = Idle
    /\ scene = Idle /\ before = Idle /\ call = NoCall /\ steps = 0 /\ recomputed = FALSE

ParseNodeHeader ==
    /\ pc = "start"
    /\ pc' = "parsed"
    /\ output' = [attrs |-> parseAttributes(NodeHeaderLine(input)),
                  node |-> parseNode(<<NodeHeaderLine(input)>>, 0).node]
    /\ UNCHANGED <<scene, before, call, steps, recomputed, input>>

NextAttributes == ParseNodeHeader

SpecAttributes == InitAttributes /\ [][NextAttributes]_vars

\* C20: a bracket-delimited array attribute is captured verbatim from its
\* opening '[' to its matching closing ']'; for every list of group names,
\* parsing a node header that carries the list yields exactly that list.
C20_ArrayAttributeVerbatim ==
    pc = "parsed" =>
        /\ ObjGet(output.attrs, <<"g", "r", "o", "u", "p", "s">>) = Str(GroupsLiteral(input.names))
        /\ output.node.groups = Arr([i \in 1..Len(input.names) |-> Str(input.names[i])])

(***************************************************************************)
(* unrecognized lines                                                      *)
(***************************************************************************)
SkipDocument ==
    << <<"[", "g", "d", "_", "s", "c", "e", "n", "e", " ", "l", "o", "a", "d", "_", "s", "t", "e", "p", "s", "=", "2", " ", "f", "o", "r", "m", "a", "t", "=", "3", "]">>, <<>>,
       <<"[", "e", "x", "t", "_", "r", "e", "s", "o", "u", "r", "c", "e", " ", "t", "y", "p", "e", "=", "\"", "S", "c", "r", "i", "p", "t", "\"", " ", "p", "a", "t", "h", "=", "\"", "r", "e", "s", ":", "/", "/", "p", ".", "g", "d", "\"", " ", "i", "d", "=", "\"", "1", "_", "s", "\"", "]">>, <<>>,
       <<"[", "n", "o", "d", "e", " ", "n", "a", "m", "e", "=", "\"", "P", "l", "a", "y", "e", "r", "\"", " ", "t", "y", "p", "e", "=", "\"", "N", "o", "d", "e", "2", "D", "\"", "]">>,
       <<"p", "o", "s", "i", "t", "i", "o", "n", " ", "=", " ", "V", "e", "c", "t", "o", "r", "2", "(", "1", ",", " ", "2", ")">>,
       <<"s", "c", "r", "i", "p", "t", " ", "=", " ", "E", "x", "t", "R", "e", "s", "o", "u", "r", "c", "e", "(", "\"", "1", "_", "s", "\"", ")">>, <<>>,
       <<"[", "n", "o", "d", "e", " ", "n", "a", "m", "e", "=", "\"", "L", "a", "b", "e", "l", "\"", " ", "t", "y", "p", "e", "=", "\"", "L", "a", "b", "e", "l", "\"", " ", "p", "a", "r", "e", "n", "t", "=", "\"", ".", "\"", "]">>,
       <<"t", "e", "x", "t", " ", "=", " ", "\"", "h", "i", "\"">>, <<>>,
       <<"[", "c", "o", "n", "n", "e", "c", "t", "i", "o", "n", " ", "s", "i", "g", "n", "a", "l", "=", "\"", "p", "r", "e", "s", "s", "e", "d", "\"", " ", "f", "r", "o", "m", "=", "\"", "L", "a", "b", "e", "l", "\"", " ", "t", "o", "=", "\"", ".", "\"", " ", "m", "e", "t", "h", "o", "d", "=", "\"", "_", "o", "n", "_", "p", "r", "e", "s", "s", "e", "d", "\"", "]">> >>

UnrecognizedLines ==
    { <<";", " ", "a", " ", "c", "o", "m", "m", "e", "n", "t">>, <<"#", " ", "n", "o", "t", "e">>, <<"s", "t", "r", "a", "y", " ", "t", "e", "x", "t">>, <<"[", "e", "d", "i", "t", "a", "b", "l", "e", " ", "p", "a", "t", "h", "=", "\"", "L", "a", "b", "e", "l", "\"", "]">>,
      <<"[", "u", "n", "k", "n", "o", "w", "n", "_", "t", "a", "g", " ", "i", "d", "=", "1", "]">> }

\* lines with line inserted after the first at lines
InsertLine(lines, at, line) ==
    SubSeq(lines, 1, at) \o <<line>> \o SubSeq(lines, at + 1, Len(lines))

InitSkip ==
    /\ input \in { [at |-> at, line |-> l] : at \in 0..Len(SkipDocument), l \in UnrecognizedLines }
    /\ pc = "start"
    /\ output = Idle
    /\ scene = Idle /\ before = Idle /\ call = NoCall /\ steps = 0 /\ recomputed = FALSE

ParseWithInsertedLine ==
    /\ pc = "start"
    /\ pc' = "parsed"
    /\ output' = [plain |-> parse(Text(SkipDocument)),
                  inserted |-> parse(Text(InsertLine(SkipDocument, input.at, input.line)))]
    /\ UNCHANGED <<scene, before, call, steps, recomputed, input>>

NextSkip == ParseWithInsertedLine

SpecSkip == InitSkip /\ [][NextSkip]_vars

\* C21: inserting an unrecognized line (a comment, stray text, or a bracketed
\* tag of an unknown kind) at any position of a document yields the same
\* header, resources, nodes with the same properties, and connections.
C21_UnrecognizedLineIsSkipped ==
    pc = "parsed" => output.inserted = output.plain

(***************************************************************************)
(* getSceneTree                                                            *)
(***************************************************************************)
kChildren == <<"_", "c", "h", "i", "l", "d", "r", "e", "n">>

kProperties == <<"p", "r", "o", "p", "e", "r", "t", "i", "e", "s">>

\* node.parent ? node.parent.split("/").filter(Boolean) : []
ParentParts(node) ==
    IF Truthy(node.parent)
    THEN LET all == SplitOn(node.parent.s, "/")
         IN  SelectSeq(all, LAMBDA part : part # <<>>)
    ELSE <<>>

\* { type: node.type, properties: node.properties, _children: {} }
TreeEntry(node) ==
    Obj(<<Entry(<<"t", "y", "p", "e">>, node.type), Entry(kProperties, node.properties),
          Entry(kChildren, EmptyObj)>>)

\* current[part], created as { _children: {} } when it is missing
Container(current, part) ==
    IF Truthy(ObjGet(current, part)) THEN ObjGet(current, part)
    ELSE Obj(<<Entry(kChildren, EmptyObj)>>)

RECURSIVE PlaceNode(_, _, _, _), PlaceUnder(_, _, _, _, _)
\* the mapping current after the walk along parts from the i-th part on and
\* the assignment current[node.name] = {...} at its end
PlaceNode(current, parts, i, node) ==
    IF i > Len(parts) THEN ObjSet(current, node.name, TreeEntry(node))
    ELSE PlaceUnder(current, Container(current, parts[i]), parts, i, node)

PlaceUnder(current, container, parts, i, node) ==
    ObjSet(current, parts[i],
           ObjSet(container, kChildren,
                  PlaceNode(ObjGet(container, kChildren), parts, i + 1, node)))

RECURSIVE TreeFrom(_, _, _)
\* for (const node of scene.nodes)
TreeFrom(nodes, i, root) ==
    IF i > Len(nodes) THEN root
    ELSE TreeFrom(nodes, i + 1, PlaceNode(root, ParentParts(nodes[i]), 1, nodes[i]))

getSceneTree(s) == TreeFrom(s.nodes, 1, EmptyObj)

TreeNodes ==
    { Node(<<"M", "a", "i", "n">>, Str(<<"N", "o", "d", "e", "2", "D">>), Undef, EmptyObj),
      Node(<<"P", "l", "a", "y", "e", "r">>, Str(<<"C", "h", "a", "r", "a", "c", "t", "e", "r", "B", "o", "d", "y", "2", "D">>), Str(Dot), Obj(<<Entry(kp, Int_(1))>>)),
      Node(<<"S", "p", "r", "i", "t", "e">>, Str(<<"S", "p", "r", "i", "t", "e", "2", "D">>), Str(<<"P", "l", "a", "y", "e", "r">>), Obj(<<Entry(kq, Int_(2))>>)),
      Node(<<"G", "u", "n">>, Str(<<"N", "o", "d", "e", "2", "D">>), Str(<<"P", "l", "a", "y", "e", "r", "/", "S", "p", "r", "i", "t", "e">>), EmptyObj) }

\* the nodes of every non-empty subset of TreeNodes in every order
TreeOrders ==
    { order \in UNION { [1..n -> TreeNodes] : n \in 1..Cardinality(TreeNodes) } :
        \A i, j \in 1..Len(order) : i # j => order[i] # order[j] }

InitTree ==
    /\ input \in TreeOrders
    /\ pc = "start"
    /\ output = Idle
    /\ scene = Idle /\ before = Idle /\ call = NoCall /\ steps = 0 /\ recomputed = FALSE

GetSceneTree ==
    /\ pc = "start"
    /\ pc' = "built"
    /\ output' = [tree |-> getSceneTree([EmptyDocument EXCEPT !.nodes = input])]
    /\ UNCHANGED <<scene, before, call, steps, recomputed, input>>

NextTree == GetSceneTree

SpecTree == InitTree /\ [][NextTree]_vars

RECURSIVE TreeLookup(_, _, _, _)
\* the entry reached from mapping along parts (through _children) and then name
TreeLookup(mapping, parts, i, name) ==
    IF mapping.k # "obj" THEN Undef
    ELSE IF i > Len(parts) THEN ObjGet(mapping, name)
    ELSE IF ObjGet(mapping, parts[i]).k # "obj" THEN Undef
    ELSE TreeLookup(ObjGet(ObjGet(mapping, parts[i]), kChildren), parts, i + 1, name)

\* C22: for each node of the scene, walking the returned mapping along the
\* '/'-separated segments of its parent path (through _children) and then its
\* name reaches an entry holding that node's type and properties, whatever the
\* order of the nodes in scene.nodes.
C22_TreeHoldsEveryNode ==
    pc = "built" =>
        \A i \in 1..Len(input) :
            LET found == TreeLookup(output.tree, SplitOn(input[i].parent.s, "/"), 1, input[i].name)
                entry == IF input[i].parent = Undef
                         THEN ObjGet(output.tree, input[i].name) ELSE found
            IN  /\ entry.k = "obj"
                /\ ObjGet(entry, <<"t", "y", "p", "e">>) = input[i].type
                /\ ObjGet(entry, kProperties) = input[i].properties

(***************************************************************************)
(* what modifyNode leaves alone                                            *)
(***************************************************************************)
\* C23: a successful modifyNode(scene, P, updates) changes at most one node,
\* and in it only name, type, groups and properties, each only when provided;
\* the node's parent, instance, owner and index, every other node, the
\* connections, the resources and the header are unchanged even when updates
\* carries values for them.
C23_ModifyTouchesFourFields ==
    (call.name = "modifyNode" /\ call.result = TRUE) =>
        LET i == IndexAt(before.nodes, call.nodePath)
            old == before.nodes[i]
            new == scene.nodes[i]
            U == call.updates
        IN  /\ Len(scene.nodes) = Len(before.nodes)
            /\ \A j \in 1..Len(before.nodes) : j # i => scene.nodes[j] = before.nodes[j]
            /\ new.parent = old.parent
            /\ new.instance = old.instance
            /\ new.instancePlaceholder = old.instancePlaceholder
            /\ new.owner = old.owner
            /\ new.index = old.index
            /\ U.name = Undef => new.name = old.name
            /\ U.type = Undef => new.type = old.type
            /\ U.groups = Undef => new.groups = old.groups
            /\ U.properties = Undef => new.properties = old.properties
            /\ scene.connections = before.connections
            /\ scene.externalResources = before.externalResources
            /\ scene.subResources = before.subResources
            /\ scene.header = before.header

\* a successful call whose updates carry a parent and an index, on a scene with
\* other nodes and connections
C23_Witness ==
    /\ call.name = "modifyNode"
    /\ call.result = TRUE
    /\ "parent" \in DOMAIN call.updates
    /\ Len(before.nodes) > 1
    /\ Len(before.connections) > 0
    /\ scene # before

(***************************************************************************)
(* the line-dispatch loop, one iteration at a time                         *)
(***************************************************************************)
MaxLines == 3

LoopLines ==
    { <<"[", "g", "d", "_", "s", "c", "e", "n", "e", " ", "f", "o", "r", "m", "a", "t", "=", "3", "]">>,
      <<"[", "e", "x", "t", "_", "r", "e", "s", "o", "u", "r", "c", "e", " ", "t", "y", "p", "e", "=", "\"", "T", "\"", " ", "p", "a", "t", "h", "=", "\"", "p", "\"", " ", "i", "d", "=", "\"", "1", "\"", "]">>,
      <<"[", "s", "u", "b", "_", "r", "e", "s", "o", "u", "r", "c", "e", " ", "t", "y", "p", "e", "=", "\"", "S", "\"", " ", "i", "d", "=", "\"", "2", "\"", "]">>,
      <<"[", "n", "o", "d", "e", " ", "n", "a", "m", "e", "=", "\"", "A", "\"", " ", "t", "y", "p", "e", "=", "\"", "N", "\"", "]">>,
      <<"[", "c", "o", "n", "n", "e", "c", "t", "i", "o", "n", " ", "s", "i", "g", "n", "a", "l", "=", "\"", "s", "\"", " ", "f", "r", "o", "m", "=", "\"", "A", "\"", " ", "t", "o", "=", "\"", ".", "\"", " ", "m", "e", "t", "h", "o", "d", "=", "\"", "m", "\"", "]">>,
      <<"a", " ", "=", " ", "1">>,
      <<>>,
      <<";", " ", "c">> }

LoopInputs == UNION { [1..n -> LoopLines] : n \in 0..MaxLines }

\* the body of the while loop of parse: the result and the index after
\* dispatching lines[index]
DispatchLine(lines, index, result) ==
    LET line == Trim(lines[index + 1])
    IN  IF StartsWith(line, <<"[", "g", "d", "_", "s", "c", "e", "n", "e">>) \/ StartsWith(line, <<"[", "g", "d", "_", "r", "e", "s", "o", "u", "r", "c", "e">>)
        THEN [result |-> [result EXCEPT !.header = parseHeader(line)], index |-> index + 1]
        ELSE IF StartsWith(line, <<"[", "e", "x", "t", "_", "r", "e", "s", "o", "u", "r", "c", "e">>)
        THEN [result |-> [result EXCEPT !.externalResources = Append(@, parseExtResource(line))],
              index |-> index + 1]
        ELSE IF StartsWith(line, <<"[", "s", "u", "b", "_", "r", "e", "s", "o", "u", "r", "c", "e">>)
        THEN PushSubResource(result, parseSubResource(lines, index))
        ELSE IF StartsWith(line, <<"[", "n", "o", "d", "e">>)
        THEN PushNode(result, parseNode(lines, index))
        ELSE IF StartsWith(line, <<"[", "c", "o", "n", "n", "e", "c", "t", "i", "o", "n">>)
        THEN [result |-> [result EXCEPT !.connections = Append(@, parseConnection(line))],
              index |-> index + 1]
        ELSE [result |-> result, index |-> index + 1]

\* const lines = content.split("\n"); let index = 0; const result = {...}
InitLoop ==
    /\ input \in LoopInputs
    /\ pc = "loop"
    /\ output = [result |-> EmptyDocument, index |-> 0]
    /\ scene = Idle /\ before = Idle /\ call = NoCall /\ steps = 0 /\ recomputed = FALSE

\* one iteration of while (index < lines.length); steps counts the dispatches
Dispatch ==
    /\ pc = "loop"
    /\ output.index < Len(input)
    /\ output' = DispatchLine(input, output.index, output.result)
    /\ steps' = steps + 1
    /\ UNCHANGED <<scene, before, call, recomputed, pc, input>>

\* the loop condition fails: return result
Return ==
    /\ pc = "loop"
    /\ output.index >= Len(input)
    /\ pc' = "returned"
    /\ UNCHANGED <<scene, before, call, steps, recomputed, input, output>>

NextLoop == Dispatch \/ Return

SpecLoop == InitLoop /\ [][NextLoop]_vars

\* what every step of the loop does to the control state: an iteration is
\* counted or the call returns; some step of NextLoop is possible whenever
\* pc = "loop", and each is a LoopStep
LoopStep ==
    /\ pc = "loop"
    /\ \/ steps' = steps + 1 /\ pc' = pc
       \/ steps' = steps /\ pc' = "returned"

\* parse is one synchronous call: once entered, the loop keeps running
SpecLoopFair == SpecLoop /\ WF_<<steps, pc>>(LoopStep)

\* the loop computes what parse computes
LoopAgreesWithParse ==
    pc = "returned" => output.result = ParseLines(input, 0, EmptyDocument)

\* C24: parse terminates on every finite input: each iteration of the
\* line-dispatch loop strictly increases the line index without passing the
\* end of the line list, so there is at most one dispatch per line and the
\* call returns.
C24_ParseTerminates ==
    /\ [][pc = "loop" /\ pc' = "loop" =>
            /\ output'.index > output.index
            /\ output'.index <= Len(input)
            /\ steps' <= Len(input)]_vars
    /\ <>(pc = "returned")

\* a returned parse in which a block parser consumed more than its header line
C24_Witness ==
    /\ pc = "returned"
    /\ steps < Len(input)
    /\ Len(output.result.nodes) > 0
    /\ output.index = Len(input)

(***************************************************************************)
(* the tres parser's value reader                                          *)
(***************************************************************************)
\* parseValue of resource-tools.js
tresParseValue(text) ==
    LET str == Trim(text)
    IN  CASE str = <<"n", "u", "l", "l">> -> Null
          [] str = <<"t", "r", "u", "e">> -> Bool(TRUE)
          [] str = <<"f", "a", "l", "s", "e">> -> Bool(FALSE)
          [] StartsWith(str, <<Quote>>) /\ EndsWith(str, <<Quote>>) -> Str(SliceInner(str, 1))
          [] IsIntegerText(str) -> ParseInt(str)
          [] IsDecimalText(str) -> ParseFloat(str)
          [] OTHER -> Str(str)

MaxTextLen == 3

TextAlphabet == {Quote, "\\", "1", "-", ".", "a", "[", " "}

TresTexts ==
    UNION { [1..n -> TextAlphabet] : n \in 0..MaxTextLen }
    \cup { <<"n", "u", "l", "l">>, <<"t", "r", "u", "e">>, <<"f", "a", "l", "s", "e">>, <<"-", "1", "2">>, <<"1", ".", "2", "5">>, <<"\"", "r", "e", "s", ":", "/", "/", "a", ".", "g", "d", "\"">>,
           <<"\"", "a", "\\", "\"", "b", "\"">>, <<"V", "e", "c", "t", "o", "r", "2", "(", "1", ",", " ", "2", ")">>, <<"C", "o", "l", "o", "r", "(", "1", ",", " ", "0", ",", " ", "0", ")">>, <<"E", "x", "t", "R", "e", "s", "o", "u", "r", "c", "e", "(", "\"", "1", "_", "s", "\"", ")">>,
           <<"N", "o", "d", "e", "P", "a", "t", "h", "(", "\"", "A", "/", "B", "\"", ")">>, <<"[", "1", ",", " ", "2", "]">>, <<"{", "\"", "a", "\"", ":", " ", "1", "}">>, <<"R", "e", "c", "t", "2", "(", "0", ",", " ", "0", ",", " ", "1", ",", " ", "1", ")">> }

InitTres ==
    /\ input \in TresTexts
    /\ pc = "start"
    /\ output = Idle
    /\ scene = Idle /\ before = Idle /\ call = NoCall /\ steps = 0 /\ recomputed = FALSE

\* the same right-hand side read by both parsers
ParseBoth ==
    /\ pc = "start"
    /\ pc' = "parsed"
    /\ output' = [tres |-> tresParseValue(input), tscn |-> parseValue(input)]
    /\ UNCHANGED <<scene, before, call, steps, recomputed, input>>

NextTres == ParseBoth

SpecTres == InitTres /\ [][NextTres]_vars

\* C25: for every right-hand-side text the tres parser's parseValue returns
\* the same Value as TscnParser.parseValue.
C25_TresAgreesWithTscn ==
    pc = "parsed" => output.tres = output.tscn

(***************************************************************************)
(* quoted strings through parse, serialize and parse                       *)
(***************************************************************************)
MaxContentLen == 2

\* contents of quoted strings: plain ones, and ones that begin like a
\* constructor call
ConstructorLikeContents ==
    { prefix \o rest :
        prefix \in { <<>>, <<"x">>, <<"V", "e", "c", "t", "o", "r", "2", "(">>, <<"C", "o", "l", "o", "r", "(">>, <<"E", "x", "t", "R", "e", "s", "o", "u", "r", "c", "e", "(">>, <<"R", "e", "c", "t", "2", "(">> },
        rest \in SeqsUpTo({"a", "1", ")"}, MaxContentLen) }

\* the property line  label = "<content>"
QuotedLine(content) == <<"l", "a", "b", "e", "l", " ", "=", " ">> \o <<Quote>> \o content \o <<Quote>>

InitQuoted ==
    /\ input \in ConstructorLikeContents
    /\ pc = "start"
    /\ output = Idle
    /\ scene = Idle /\ before = Idle /\ call = NoCall /\ steps = 0 /\ recomputed = FALSE

\* parseProperty on the line of the document
ParseQuoted ==
    /\ pc = "start"
    /\ pc' = "parsed"
    /\ output' = [first |-> parseProperty(QuotedLine(input))]
    /\ UNCHANGED <<scene, before, call, steps, recomputed, input>>

\* the line serialize writes for the property
SerializeQuoted ==
    /\ pc = "parsed"
    /\ pc' = "serialized"
    /\ output' = [first |-> output.first,
                  line |-> PropertyLines(Obj(<<Entry(output.first.key, output.first.value)>>))[1]]
    /\ UNCHANGED <<scene, before, call, steps, recomputed, input>>

\* parseProperty on the serialized line
ReparseQuoted ==
    /\ pc = "serialized"
    /\ pc' = "reparsed"
    /\ output' = [first |-> output.first, line |-> output.line,
                  second |-> parseProperty(output.line)]
    /\ UNCHANGED <<scene, before, call, steps, recomputed, input>>

NextQuoted == ParseQuoted \/ SerializeQuoted \/ ReparseQuoted

SpecQuoted == InitQuoted /\ [][NextQuoted]_vars

\* C26: a property whose text is a quoted string is a string after parse, and
\* after serialize followed by parse it is still that same string, also when
\* its content begins with Vector2(, Color(, ExtResource( or Rect2(.
C26_StringsStayStrings ==
    /\ pc \in {"parsed", "serialized", "reparsed"} => output.first.value = Str(input)
    /\ pc = "reparsed" => output.second.value = output.first.value

(***************************************************************************)
(* removeNode on a path no node has                                        *)
(***************************************************************************)
\* C27: removeNode(scene, P) where no node of the scene has computed path P
\* (P = "", P = "." and P a proper prefix of a node name included) leaves
\* scene.nodes and scene.connections unchanged.
C27_RemoveMissingRemovesNothing ==
    (/\ call.name = "removeNode"
     /\ \A i \in 1..Len(before.nodes) : getNodePath(before.nodes[i]) # call.nodePath) =>
        /\ scene.nodes = before.nodes
        /\ scene.connections = before.connections

(***************************************************************************)
(* serializeValue on untagged objects                                      *)
(***************************************************************************)
MaxTextKeys == 1

\* candidate keys, in insertion order
ObjectKeys == <<kx, ky, kz, kr, kg, kb, ka, <<"k">>, <<"_", "h">>>>

\* the untagged object holding the keys at positions keys, a string under the
\* positions in text and the number i under every other position i
UntaggedObject(keys, text) ==
    LET chosen == SelectSeq([i \in 1..Len(ObjectKeys) |-> i], LAMBDA i : i \in keys)
    IN  Obj([j \in 1..Len(chosen) |->
                Entry(ObjectKeys[chosen[j]],
                      IF chosen[j] \in text THEN Str(<<"s">>) ELSE Int_(chosen[j]))])

UntaggedObjects ==
    { UntaggedObject(keys, text) :
        <<keys, text>> \in
            { q \in (SUBSET (1..Len(ObjectKeys))) \X (SUBSET (1..Len(ObjectKeys))) :
                q[2] \subseteq q[1] /\ Cardinality(q[2]) <= MaxTextKeys } }

InitObject ==
    /\ input \in UntaggedObjects
    /\ pc = "start"
    /\ output = Idle
    /\ scene = Idle /\ before = Idle /\ call = NoCall /\ steps = 0 /\ recomputed = FALSE

SerializeObject ==
    /\ pc = "start"
    /\ pc' = "serialized"
    /\ output' = [text |-> serializeValue(input)]
    /\ UNCHANGED <<scene, before, call, steps, recomputed, input>>

NextObject == SerializeObject

SpecObject == InitObject /\ [][NextObject]_vars

\* the keys are exactly those of a vector or a colour and every value is a number
ExactShape(o) ==
    /\ KeySet(o) \in {{kx, ky}, {kx, ky, kz}, {kr, kg, kb}, {kr, kg, kb, ka}}
    /\ \A i \in 1..Len(o.entries) : IsNum(o.entries[i].val)

\* text has part at some position
HasPart(text, part) ==
    \E i \in 0..(Len(text) - Len(part)) : SubSeq(text, i + 1, i + Len(part)) = part

\* text is a dictionary literal with a "key": value pair for every key of o
\* that does not start with an underscore
DictionaryOfAll(text, o) ==
    /\ StartsWith(text, <<"{">>) /\ EndsWith(text, <<"}">>)
    /\ \A i \in 1..Len(o.entries) :
            ~StartsWith(o.entries[i].key, <<"_">>) =>
                HasPart(text, QuoteString(o.entries[i].key) \o <<":", " ">>
                              \o serializeValue(o.entries[i].val))

\* C28: serializeValue of an untagged object emits a Vector2, Vector3 or Color
\* constructor only when the keys are exactly {x,y}, {x,y,z}, {r,g,b} or
\* {r,g,b,a} with numeric values, and otherwise a dictionary with every key not
\* starting with an underscore.
C28_UntaggedObjectLosesNoEntry ==
    pc = "serialized" =>
        /\ (\E name \in {<<"V", "e", "c", "t", "o", "r", "2", "(">>, <<"V", "e", "c", "t", "o", "r", "3", "(">>, <<"C", "o", "l", "o", "r", "(">>} : StartsWith(output.text, name))
                => ExactShape(input)
        /\ ~ExactShape(input) => DictionaryOfAll(output.text, input)

(***************************************************************************)
(* the editor bridge: sockets, requests and their timers                   *)
(*   scene  holds the module state: wsConnection (0 is null), messageId,   *)
(*          pendingRequests, and state.editorConnected                     *)
(*   before holds the sockets created so far, output the requests issued   *)
(***************************************************************************)
MaxSockets == 2

MaxRequests == 2

\* new WebSocket(url) with its connection timer
NewSocket == [readyState |-> "CONNECTING", timeout |-> "armed", opened |-> FALSE, errored |-> FALSE]

\* the promise of one sendRequest call with its 30 s timer; settled counts the
\* calls of its resolve and reject
NewRequest(id, socket) ==
    [id |-> id, socket |-> socket, timer |-> "armed", settled |-> 0, outcome |-> "pending"]

\* clearTimeout
ClearTimer(t) == IF t = "armed" THEN "cleared" ELSE t

\* Map.has, Map.set, Map.delete on pendingRequests, a set of [id, req] entries
MapHas(m, id) == \E e \in m : e.id = id

MapDelete(m, id) == {e \in m : e.id # id}

MapSet(m, id, req) == MapDelete(m, id) \cup {[id |-> id, req |-> req]}

\* a promise keeps its first outcome
Outcome(r, outcome) == IF r.settled = 0 THEN outcome ELSE r.outcome

\* the resolve and reject stored in pendingRequests: clearTimeout, then settle
SettleStored(reqs, r, outcome) ==
    [reqs EXCEPT ![r] = [@ EXCEPT !.timer = ClearTimer(@), !.settled = @ + 1,
                                  !.outcome = Outcome(reqs[r], outcome)]]

\* wsConnection && wsConnection.readyState === WebSocket.OPEN
IsOpen(g, socks) == g.wsConnection # 0 /\ socks[g.wsConnection].readyState = "OPEN"

\* a request that takes the current messageId without advancing it
sendRequest_ReuseId(g, reqs) ==
    [scene |-> [g EXCEPT !.pendingRequests = MapSet(@, g.messageId, Len(reqs) + 1)],
     output |-> Append(reqs, NewRequest(g.messageId, g.wsConnection))]

\* sendRequest past its connection test
sendRequest(g, reqs) ==
    [scene |-> [g EXCEPT !.messageId = @ + 1,
                         !.pendingRequests = MapSet(@, g.messageId + 1, Len(reqs) + 1)],
     output |-> Append(reqs, NewRequest(g.messageId + 1, g.wsConnection))]

\* socket.close()
CloseSocket(socks, s) ==
    IF socks[s].readyState \in {"CONNECTING", "OPEN"}
    THEN [socks EXCEPT ![s].readyState = "CLOSING"]
    ELSE socks

InitBridge ==
    /\ scene = [wsConnection |-> 0, messageId |-> 0, pendingRequests |-> {},
                editorConnected |-> FALSE]
    /\ before = <<>>
    /\ output = <<>>
    /\ call = NoCall
    /\ steps = 0 /\ recomputed = FALSE /\ pc = "idle" /\ input = Idle

\* the godot_connect handler up to its await
GodotConnect ==
    /\ \/ /\ IsOpen(scene, before)
          /\ UNCHANGED <<scene, before>>
       \/ /\ ~IsOpen(scene, before)
          /\ Len(before) < MaxSockets
          /\ \/ /\ before' = Append(before, NewSocket)
                /\ scene' = [scene EXCEPT !.wsConnection = Len(before) + 1]
             \/ \* new WebSocket(url) throws on a malformed url
                /\ UNCHANGED <<scene, before>>
    /\ UNCHANGED <<output, call, steps, recomputed, pc, input>>

\* the godot_disconnect handler
GodotDisconnect ==
    /\ IF scene.wsConnection # 0
       THEN /\ before' = CloseSocket(before, scene.wsConnection)
            /\ scene' = [scene EXCEPT !.wsConnection = 0, !.editorConnected = FALSE]
       ELSE UNCHANGED <<scene, before>>
    /\ UNCHANGED <<output, call, steps, recomputed, pc, input>>

\* the 5 s timer of the connectToGodot call that made socket s
ConnectionTimeout(s) ==
    /\ before[s].timeout = "armed"
    /\ LET fired == [before EXCEPT ![s].timeout = "fired"]
       IN  IF scene.wsConnection # 0
           THEN /\ before' = CloseSocket(fired, scene.wsConnection)
                /\ scene' = [scene EXCEPT !.wsConnection = 0]
           ELSE /\ before' = fired
                /\ UNCHANGED scene
    /\ UNCHANGED <<output, call, steps, recomputed, pc, input>>

\* the "open" callback of socket s
SocketOpen(s) ==
    /\ before[s].readyState = "CONNECTING"
    /\ LET socks == [before EXCEPT ![s] = [@ EXCEPT !.readyState = "OPEN", !.opened = TRUE,
                                                    !.timeout = ClearTimer(@)]]
           g == [scene EXCEPT !.editorConnected = TRUE]
       IN  /\ before' = socks
           /\ IF IsOpen(g, socks)
              THEN /\ scene.messageId < MaxRequests
                   /\ scene' = sendRequest(g, output).scene
                   /\ output' = sendRequest(g, output).output
              ELSE \* sendRequest throws, the callback catches
                   /\ scene' = g
                   /\ output' = output
    /\ UNCHANGED <<call, steps, recomputed, pc, input>>

\* the "error" callback of socket s
SocketError(s) ==
    /\ before[s].readyState \in {"CONNECTING", "OPEN", "CLOSING"}
    /\ ~before[s].errored
    /\ before' = [CloseSocket(before, s) EXCEPT ![s].errored = TRUE,
                                                  ![s].timeout = ClearTimer(@)]
    /\ scene' = [scene EXCEPT !.editorConnected = FALSE]
    /\ UNCHANGED <<output, call, steps, recomputed, pc, input>>

RECURSIVE RejectAll(_, _)
\* for (const [id, { reject }] of pendingRequests) reject(new Error("Connection closed"))
RejectAll(reqs, m) ==
    IF m = {} THEN reqs
    ELSE LET e == CHOOSE x \in m : TRUE
         IN  RejectAll(SettleStored(reqs, e.req, "closed"), m \ {e})

\* the "close" callback of socket s; a socket that never opened reports an
\* error before it closes
SocketClose(s) ==
    /\ before[s].readyState \in {"OPEN", "CLOSING"}
    /\ before[s].opened \/ before[s].errored
    /\ before' = [before EXCEPT ![s].readyState = "CLOSED"]
    /\ scene' = [scene EXCEPT !.editorConnected = FALSE, !.wsConnection = 0,
                              !.pendingRequests = {}]
    /\ output' = RejectAll(output, scene.pendingRequests)
    /\ UNCHANGED <<call, steps, recomputed, pc, input>>

\* a tool handler that passed ensureConnected calls sendRequest
ToolRequest ==
    /\ IsOpen(scene, before)
    /\ scene.messageId < MaxRequests
    /\ scene' = sendRequest(scene, output).scene
    /\ output' = sendRequest(scene, output).output
    /\ UNCHANGED <<before, call, steps, recomputed, pc, input>>

\* the "message" callback of socket s on a message carrying id (0: no id, or
\* text that is not JSON); with an error member the stored reject is called,
\* without one the stored resolve
Message(s, id) ==
    /\ before[s].opened
    /\ before[s].readyState \in {"OPEN", "CLOSING"}
    /\ IF id # 0 /\ MapHas(scene.pendingRequests, id)
       THEN LET e == CHOOSE x \in scene.pendingRequests : x.id = id
            IN  /\ scene' = [scene EXCEPT !.pendingRequests = MapDelete(@, id)]
                /\ output' = SettleStored(output, e.req, "response")
       ELSE UNCHANGED <<scene, output>>
    /\ UNCHANGED <<before, call, steps, recomputed, pc, input>>

\* the 30 s timer of request r
RequestTimeout(r) ==
    /\ output[r].timer = "armed"
    /\ scene' = [scene EXCEPT !.pendingRequests = MapDelete(@, output[r].id)]
    /\ output' = [output EXCEPT ![r] = [@ EXCEPT !.timer = "fired", !.settled = @ + 1,
                                                 !.outcome = Outcome(output[r], "timeout")]]
    /\ UNCHANGED <<before, call, steps, recomputed, pc, input>>

NextBridge ==
    \/ GodotConnect
    \/ GodotDisconnect
    \/ ToolRequest
    \/ \E s \in 1..Len(before) : ConnectionTimeout(s)
    \/ \E s \in 1..Len(before) : SocketOpen(s)
    \/ \E s \in 1..Len(before) : SocketError(s)
    \/ \E s \in 1..Len(before) : SocketClose(s)
    \/ \E s \in 1..Len(before), id \in 0..MaxRequests : Message(s, id)
    \/ \E r \in 1..Len(output) : RequestTimeout(r)

SpecBridge == InitBridge /\ [][NextBridge]_vars

\* timers of the event loop fire unless cleared
SpecBridgeFair ==
    SpecBridge /\ \A r \in 1..MaxRequests : WF_vars(r <= Len(output) /\ RequestTimeout(r))

\* request r is the stored entry of its id
IsPending(r) == \E e \in scene.pendingRequests : e.req = r /\ e.id = output[r].id

\* no request is settled twice, a request is in pendingRequests exactly while
\* it is unsettled, and no two requests carry the same id
RequestsSettleOnce ==
    /\ \A r \in 1..Len(output) :
            /\ output[r].settled <= 1
            /\ IsPending(r) <=> output[r].settled = 0
            /\ output[r].settled = 1 <=> output[r].outcome \in {"response", "timeout", "closed"}
    /\ \A e \in scene.pendingRequests : e.req \in 1..Len(output) /\ output[e.req].id = e.id
    /\ \A r1, r2 \in 1..Len(output) : output[r1].id = output[r2].id => r1 = r2

\* a message whose id is not pending changes no request and no entry
UnknownResponseSettlesNothing ==
    \A s \in 1..Len(before), id \in 0..(MaxRequests + 1) :
        (Message(s, id) /\ ~MapHas(scene.pendingRequests, id)) =>
            /\ output' = output
            /\ scene'.pendingRequests = scene.pendingRequests

\* C29: every request issued by sendRequest is eventually settled exactly once
\* (by the response carrying its id, by its 30-second timeout, or by rejection
\* when the connection closes); its id is in pendingRequests exactly while it
\* is unsettled, ids are never reused, and a response whose id is not pending
\* settles nothing.
C29_RequestsSettleExactlyOnce ==
    /\ []RequestsSettleOnce
    /\ [][UnknownResponseSettlesNothing]_vars
    /\ \A r \in 1..MaxRequests :
            (Len(output) >= r) ~> (Len(output) >= r /\ output[r].settled = 1)

\* one request was answered, another was rejected by the close of the
\* connection, and neither is pending any more
C29_Witness ==
    /\ \E r1, r2 \in 1..Len(output) :
            /\ output[r1].outcome = "response" /\ output[r1].settled = 1
            /\ output[r2].outcome = "closed" /\ output[r2].settled = 1
    /\ scene.pendingRequests = {}

\* C30: a close event of a socket that is no longer the current wsConnection
\* does not set wsConnection to null, does not set state.editorConnected to
\* false, and does not reject requests sent on the current connection.
C30_StaleCloseIsIgnored ==
    [][\A s \in 1..Len(before) :
          (/\ SocketClose(s)
           /\ scene.wsConnection # 0
           /\ s # scene.wsConnection) =>
                /\ scene'.wsConnection = scene.wsConnection
                /\ scene'.editorConnected = scene.editorConnected
                /\ \A r \in 1..Len(output) :
                        output[r].socket = scene.wsConnection => output'[r] = output[r]]_vars

====
